---------------------------- MODULE Spec2Model ----------------------------
(***************************************************************************)
(* A model of the editing engine of pxrs (a pixel-art editor): layers,     *)
(* compositing, the tool engine, the clipboard and the undo/redo history.  *)
(*                                                                         *)
(* Conventions.                                                            *)
(*  - `state` is the EditorState the update function mutates; every        *)
(*    handler is an operator from an EditorState (and the message's        *)
(*    arguments) to the EditorState it leaves behind.                      *)
(*  - A Vec is a sequence; Rust's 0-based index i is position i + 1.       *)
(*  - A Color channel (f32) is an exact rational <<n, d>> in lowest terms, *)
(*    so Color equality is equality of records.  f32 rounding error is not *)
(*    modelled; conversions to and from RGBA8 round as the code does.      *)
(*  - `locals` holds the local variables of a handler that a specification *)
(*    follows step by step (None when no handler is running).              *)
(*  - `aux` holds history variables used only to state properties.         *)
(***************************************************************************)
EXTENDS Integers, Sequences, FiniteSets, TLC

VARIABLES state, locals, aux

vars == <<state, locals, aux>>

---------------------------------------------------------------------------
(* Program constants *)

\* History::push keeps at most this many commands.
HistoryLimit == 100

---------------------------------------------------------------------------
(* Exact rationals standing for f32 values *)

RECURSIVE GCD(_, _)
GCD(a, b) == IF b = 0 THEN a ELSE GCD(b, a % b)

Abs(n) == IF n < 0 THEN -n ELSE n

\* The rational n/d (d # 0) in lowest terms with a positive denominator.
Rat(n, d) ==
    LET s == IF d < 0 THEN -1 ELSE 1
        k == GCD(Abs(n), Abs(d))
    IN  <<(s * n) \div k, (s * d) \div k>>

RInt(n) == <<n, 1>>
\* Sums and differences are taken over the least common denominator.
RAdd(p, q) ==
    LET g == GCD(p[2], q[2])
    IN  Rat(p[1] * (q[2] \div g) + q[1] * (p[2] \div g), (p[2] \div g) * q[2])
RSub(p, q) ==
    LET g == GCD(p[2], q[2])
    IN  Rat(p[1] * (q[2] \div g) - q[1] * (p[2] \div g), (p[2] \div g) * q[2])
\* Products cancel across the two fractions before they multiply.
RMul(p, q) ==
    LET g == GCD(Abs(p[1]), q[2])
        h == GCD(Abs(q[1]), p[2])
    IN  IF p[1] = 0 \/ q[1] = 0 THEN <<0, 1>>
        ELSE <<(p[1] \div g) * (q[1] \div h), (p[2] \div h) * (q[2] \div g)>>
RDiv(p, q) ==
    RMul(p, IF q[1] < 0 THEN <<-q[2], -q[1]>> ELSE <<q[2], q[1]>>)
RLt(p, q) ==
    LET g == GCD(p[2], q[2])
    IN  p[1] * (q[2] \div g) < q[1] * (p[2] \div g)
RLe(p, q) ==
    LET g == GCD(p[2], q[2])
    IN  p[1] * (q[2] \div g) <= q[1] * (p[2] \div g)
RMin(p, q) == IF RLe(p, q) THEN p ELSE q
RMax(p, q) == IF RLe(p, q) THEN q ELSE p

\* f32::round (half away from zero) followed by `as u8` (saturating).
RoundU8(q) ==
    IF q[1] <= 0 THEN 0
    ELSE LET v == (2 * q[1] + q[2]) \div (2 * q[2])
         IN  IF v > 255 THEN 255 ELSE v

\* `as u8` of a non-negative f32: truncation toward zero, saturating.
TruncU8(q) ==
    IF q[1] <= 0 THEN 0
    ELSE LET v == q[1] \div q[2]
         IN  IF v > 255 THEN 255 ELSE v

---------------------------------------------------------------------------
(* iced::Color and its RGBA8 conversions *)

MkColor(r, g, b, a) == [r |-> r, g |-> g, b |-> b, a |-> a]

TRANSPARENT == MkColor(RInt(0), RInt(0), RInt(0), RInt(0))
BLACK == MkColor(RInt(0), RInt(0), RInt(0), RInt(1))
WHITE == MkColor(RInt(1), RInt(1), RInt(1), RInt(1))

\* Color::from_rgba8(r, g, b, a): bytes r, g, b and an f32 alpha.
from_rgba8(r, g, b, a) == MkColor(Rat(r, 255), Rat(g, 255), Rat(b, 255), a)

\* Color::into_rgba8: each channel times 255, rounded.
into_rgba8(c) ==
    <<RoundU8(RMul(c.r, RInt(255))), RoundU8(RMul(c.g, RInt(255))),
      RoundU8(RMul(c.b, RInt(255))), RoundU8(RMul(c.a, RInt(255)))>>

color_to_rgba8(color) == into_rgba8(color)

rgba8_to_color(rgba) == from_rgba8(rgba[1], rgba[2], rgba[3], Rat(rgba[4], 255))

clamp_u32(value, min, max) ==
    LET lo == IF value > min THEN value ELSE min
    IN  IF lo < max THEN lo ELSE max

---------------------------------------------------------------------------
(* u32 arithmetic.  A u32 is written <<hi, lo>>, its two 16-bit halves, so *)
(* that every u32 up to u32::MAX can be written; a number is the u32 of    *)
(* the same value.  The operators give the wrapped result, which is what   *)
(* a build without overflow checks computes, and tell whether the exact    *)
(* result overflowed, which is where a build with overflow checks panics.  *)

U32Half == 65536

ToU32(n) == <<n \div U32Half, n % U32Half>>

\* The number of a u32 below 2^31.
FromU32(w) == w[1] * U32Half + w[2]

U32Max == <<U32Half - 1, U32Half - 1>>

U32Lt(a, b) == a[1] < b[1] \/ (a[1] = b[1] /\ a[2] < b[2])

\* a + b
U32Add(a, b) ==
    LET lo == a[2] + b[2]
        hi == a[1] + b[1] + (lo \div U32Half)
    IN  [value |-> <<hi % U32Half, lo % U32Half>>, overflow |-> hi >= U32Half]

\* The four bytes of a u32, the lowest first.
U32Bytes(a) == <<a[2] % 256, a[2] \div 256, a[1] % 256, a[1] \div 256>>

\* a * b, by long multiplication on the bytes.
U32Mul(a, b) ==
    LET x == U32Bytes(a)
        y == U32Bytes(b)
        column == [k \in 0..6 |->
                      LET terms == {i \in 1..4 : k + 2 - i \in 1..4}
                          t1 == IF 1 \in terms THEN x[1] * y[k + 1] ELSE 0
                          t2 == IF 2 \in terms THEN x[2] * y[k] ELSE 0
                          t3 == IF 3 \in terms THEN x[3] * y[k - 1] ELSE 0
                          t4 == IF 4 \in terms THEN x[4] * y[k - 2] ELSE 0
                      IN  t1 + t2 + t3 + t4]
        c0 == column[0]
        c1 == column[1] + (c0 \div 256)
        c2 == column[2] + (c1 \div 256)
        c3 == column[3] + (c2 \div 256)
        c4 == column[4] + (c3 \div 256)
    IN  [value |-> <<(c3 % 256) * 256 + (c2 % 256),
                      (c1 % 256) * 256 + (c0 % 256)>>,
         overflow |-> c4 > 0 \/ column[5] > 0 \/ column[6] > 0]

\* width * height * 4
BufferSize(width, height) ==
    LET area == U32Mul(ToU32(width), ToU32(height))
        bytes == U32Mul(area.value, ToU32(4))
    IN  [value |-> bytes.value, overflow |-> area.overflow \/ bytes.overflow]

---------------------------------------------------------------------------
(* History *)

\* Option: None, and Some(v).
None == [none |-> TRUE]
Some(v) == [some |-> v]

HistoryNew == [commands |-> <<>>, current_index |-> 0]

\* Vec::truncate(n): keeps the first n elements, no effect when n >= len.
Truncate(s, n) == IF n >= Len(s) THEN s ELSE SubSeq(s, 1, n)

\* A push that forgets to discard the redo tail.
PushKeepingTail(h, command) ==
    LET pushed == Append(h.commands, command)
        idx == h.current_index + 1
    IN  IF Len(pushed) > HistoryLimit
        THEN [commands |-> Tail(pushed), current_index |-> idx - 1]
        ELSE [commands |-> pushed, current_index |-> idx]

\* A push that evicts the newest command instead of the oldest.
PushEvictingNewest(h, command) ==
    LET pushed == Append(Truncate(h.commands, h.current_index), command)
        idx == h.current_index + 1
    IN  IF Len(pushed) > HistoryLimit
        THEN [commands |-> SubSeq(pushed, 1, Len(pushed) - 1),
              current_index |-> idx - 1]
        ELSE [commands |-> pushed, current_index |-> idx]

\* A push that evicts the oldest command but leaves the cursor where it was.
PushKeepingCursor(h, command) ==
    LET pushed == Append(Truncate(h.commands, h.current_index), command)
        idx == h.current_index + 1
    IN  IF Len(pushed) > HistoryLimit
        THEN [commands |-> Tail(pushed), current_index |-> idx]
        ELSE [commands |-> pushed, current_index |-> idx]

\* History::push
HistPush(h, command) ==
    LET pushed == Append(Truncate(h.commands, h.current_index), command)
        idx == h.current_index + 1
    IN  IF Len(pushed) > HistoryLimit
        THEN [commands |-> Tail(pushed), current_index |-> idx - 1]
        ELSE [commands |-> pushed, current_index |-> idx]

can_undo(h) == h.current_index > 0

can_redo(h) == h.current_index < Len(h.commands)

\* History::undo: the history it leaves and the Option it returns.
HistUndo(h) ==
    IF can_undo(h)
    THEN [history |-> [h EXCEPT !.current_index = h.current_index - 1],
          result |-> Some(h.commands[h.current_index])]
    ELSE [history |-> h, result |-> None]

\* History::redo
HistRedo(h) ==
    IF can_redo(h)
    THEN [history |-> [h EXCEPT !.current_index = h.current_index + 1],
          result |-> Some(h.commands[h.current_index + 1])]
    ELSE [history |-> h, result |-> None]

---------------------------------------------------------------------------
(* EditCommand *)

PixelChange(layer_index, x, y, old_color, new_color) ==
    [type |-> "PixelChange", layer_index |-> layer_index, x |-> x, y |-> y,
     old_color |-> old_color, new_color |-> new_color]

\* changes: a sequence of <<x, y, old_color, new_color>>.
MultiPixelChange(layer_index, changes) ==
    [type |-> "MultiPixelChange", layer_index |-> layer_index,
     changes |-> changes]

---------------------------------------------------------------------------
(* Layer *)

\* vec![0u8; n]
Zeros(n) == [i \in 1..n |-> 0]

\* Layer::new
LayerNew(name, width, height) ==
    [name |-> name, pixels |-> Zeros(FromU32(BufferSize(width, height).value)),
     width |-> width,
     height |-> height, visible |-> TRUE, opacity |-> RInt(1)]

\* Layer::get_pixel
LayerGetPixel(layer, x, y) ==
    IF x >= layer.width \/ y >= layer.height THEN TRANSPARENT
    ELSE LET index == (y * layer.width + x) * 4
         IN  IF index + 3 < Len(layer.pixels)
             THEN from_rgba8(layer.pixels[index + 1], layer.pixels[index + 2],
                             layer.pixels[index + 3],
                             Rat(layer.pixels[index + 4], 255))
             ELSE TRANSPARENT

\* A set_pixel that writes the colour bytes and leaves the alpha byte alone.
LayerSetPixelNoAlpha(layer, x, y, color) ==
    IF x >= layer.width \/ y >= layer.height THEN layer
    ELSE LET index == (y * layer.width + x) * 4
             rgba == into_rgba8(color)
         IN  IF index + 3 < Len(layer.pixels)
             THEN [layer EXCEPT !.pixels =
                      [i \in 1..Len(layer.pixels) |->
                          IF i > index /\ i <= index + 3
                          THEN rgba[i - index] ELSE layer.pixels[i]]]
             ELSE layer

\* Layer::set_pixel
LayerSetPixel(layer, x, y, color) ==
    IF x >= layer.width \/ y >= layer.height THEN layer
    ELSE LET index == (y * layer.width + x) * 4
             rgba == into_rgba8(color)
         IN  IF index + 3 < Len(layer.pixels)
             THEN [layer EXCEPT !.pixels =
                      [i \in 1..Len(layer.pixels) |->
                          IF i > index /\ i <= index + 4
                          THEN rgba[i - index] ELSE layer.pixels[i]]]
             ELSE layer

---------------------------------------------------------------------------
(* EditorState.  The fields that only the view reads (zoom_level,          *)
(* grid_visible, secondary_color, selected_export_format) are left out.    *)

\* add_used_color keeps at most this many colours.
UsedColorsLimit == 32

\* EditorState::new (Default::default with the canvas size replaced).
EditorStateNew(width, height) ==
    [canvas_width |-> width, canvas_height |-> height,
     current_tool |-> "Pencil", primary_color |-> BLACK, brush_size |-> 1,
     layers |-> <<LayerNew("Layer 1", width, height)>>,
     active_layer_index |-> 0, history |-> HistoryNew, selection |-> None,
     clipboard |-> None, is_drawing |-> FALSE, last_pixel |-> None,
     is_selecting |-> FALSE, mirror_horizontal |-> FALSE,
     mirror_vertical |-> FALSE, used_colors |-> <<BLACK, WHITE>>]

\* self.layers.get(self.active_layer_index).is_some()
HasActiveLayer(st) == st.active_layer_index < Len(st.layers)

\* EditorState::active_layer, where HasActiveLayer
active_layer(st) == st.layers[st.active_layer_index + 1]

\* A blend that lets the top colour through whatever the opacity.
BlendTopOnly(bottom, top, opacity) == top

\* blend_color
blend_color(bottom, top, opacity) ==
    LET bottom_rgba == into_rgba8(bottom)
        top_rgba == into_rgba8(top)
        br == Rat(bottom_rgba[1], 255)
        bg == Rat(bottom_rgba[2], 255)
        bb == Rat(bottom_rgba[3], 255)
        ba == Rat(bottom_rgba[4], 255)
        tr == Rat(top_rgba[1], 255)
        tg == Rat(top_rgba[2], 255)
        tb == Rat(top_rgba[3], 255)
        ta == Rat(top_rgba[4], 255)
        ea == RMul(ta, opacity)
        rest == RSub(RInt(1), ea)
        final_alpha == RAdd(ea, RMul(ba, rest))
        mix(t, b) ==
            RDiv(RAdd(RMul(t, ea), RMul(RMul(b, ba), rest)), final_alpha)
    IN  IF final_alpha = RInt(0) THEN TRANSPARENT
        ELSE MkColor(mix(tr, br), mix(tg, bg), mix(tb, bb), final_alpha)

\* The loop of EditorState::get_pixel over layers[k..], result so far `acc`.
RECURSIVE CompositeFrom(_, _, _, _, _)
CompositeFrom(layers, k, x, y, acc) ==
    IF k > Len(layers) THEN acc
    ELSE IF ~layers[k].visible THEN CompositeFrom(layers, k + 1, x, y, acc)
    ELSE CompositeFrom(layers, k + 1, x, y,
             blend_color(acc, LayerGetPixel(layers[k], x, y),
                         layers[k].opacity))

\* EditorState::get_pixel
get_pixel(st, x, y) ==
    IF x >= st.canvas_width \/ y >= st.canvas_height THEN TRANSPARENT
    ELSE CompositeFrom(st.layers, 1, x, y, TRANSPARENT)

\* |a - b| < 0.01
Near(a, b) ==
    LET d == RSub(a, b)
    IN  RLt(<<Abs(d[1]), d[2]>>, Rat(1, 100))

\* An add_used_color that drops the new colour once the list is full.
AddUsedColorDroppingNewest(st, color) ==
    IF RLt(color.a, Rat(1, 100)) THEN st
    ELSE LET exists == \E i \in 1..Len(st.used_colors) :
                          LET c == st.used_colors[i]
                          IN  /\ Near(c.r, color.r) /\ Near(c.g, color.g)
                              /\ Near(c.b, color.b) /\ Near(c.a, color.a)
             pushed == Append(st.used_colors, color)
         IN  IF exists THEN st
             ELSE [st EXCEPT !.used_colors =
                      IF Len(pushed) > UsedColorsLimit
                      THEN SubSeq(pushed, 1, UsedColorsLimit)
                      ELSE pushed]

\* EditorState::add_used_color
add_used_color(st, color) ==
    IF RLt(color.a, Rat(1, 100)) THEN st
    ELSE LET exists == \E i \in 1..Len(st.used_colors) :
                          LET c == st.used_colors[i]
                          IN  /\ Near(c.r, color.r) /\ Near(c.g, color.g)
                              /\ Near(c.b, color.b) /\ Near(c.a, color.a)
             pushed == Append(st.used_colors, color)
         IN  IF exists THEN st
             ELSE [st EXCEPT !.used_colors =
                      IF Len(pushed) > UsedColorsLimit THEN Tail(pushed)
                      ELSE pushed]

\* EditorState::set_pixel
set_pixel(st, x, y, color) ==
    IF HasActiveLayer(st)
    THEN add_used_color(
             [st EXCEPT !.layers[st.active_layer_index + 1] =
                 LayerSetPixel(active_layer(st), x, y, color)],
             color)
    ELSE st

\* EditorState::add_layer
add_layer(st, name) ==
    LET layers == Append(st.layers,
                         LayerNew(name, st.canvas_width, st.canvas_height))
    IN  [st EXCEPT !.layers = layers, !.active_layer_index = Len(layers) - 1]

\* Vec::remove(index), 0-based
RemoveAt(s, index) ==
    [i \in 1..(Len(s) - 1) |-> IF i <= index THEN s[i] ELSE s[i + 1]]

\* Vec::insert(index, e), 0-based
InsertAt(s, index, e) ==
    [i \in 1..(Len(s) + 1) |->
        IF i <= index THEN s[i] ELSE IF i = index + 1 THEN e ELSE s[i - 1]]

\* A delete_layer that leaves the active index where it was.
DeleteLayerNoClamp(st, index) ==
    IF Len(st.layers) > 1 /\ index < Len(st.layers)
    THEN [st EXCEPT !.layers = RemoveAt(st.layers, index)]
    ELSE st

\* A delete_layer that removes the top layer whatever the index.
DeleteLayerLast(st, index) ==
    IF Len(st.layers) > 1 /\ index < Len(st.layers)
    THEN LET layers == RemoveAt(st.layers, Len(st.layers) - 1)
         IN  [st EXCEPT !.layers = layers,
                        !.active_layer_index =
                            IF st.active_layer_index >= Len(layers)
                            THEN Len(layers) - 1
                            ELSE st.active_layer_index]
    ELSE st

\* EditorState::delete_layer
delete_layer(st, index) ==
    IF Len(st.layers) > 1 /\ index < Len(st.layers)
    THEN LET layers == RemoveAt(st.layers, index)
         IN  [st EXCEPT !.layers = layers,
                        !.active_layer_index =
                            IF st.active_layer_index >= Len(layers)
                            THEN Len(layers) - 1
                            ELSE st.active_layer_index]
    ELSE st

---------------------------------------------------------------------------
(* Tools *)

\* A brush of the pixels within size / 2 of the centre on a circle.
BrushPixelsRound(x, y, size, canvas_width, canvas_height) ==
    LET radius == size \div 2
        side == 2 * radius + 1
        cand == [k \in 1..(side * side) |->
                    <<x + ((k - 1) % side) - radius,
                      y + ((k - 1) \div side) - radius>>]
        inside(p) == /\ p[1] >= 0 /\ p[2] >= 0
                     /\ p[1] < canvas_width /\ p[2] < canvas_height
                     /\ (p[1] - x) * (p[1] - x) + (p[2] - y) * (p[2] - y)
                            <= radius * radius
    IN  SelectSeq(cand, inside)

\* get_brush_pixels: the in-bounds offsets of the square, dy outer, dx inner.
get_brush_pixels(x, y, size, canvas_width, canvas_height) ==
    LET radius == size \div 2
        side == 2 * radius + 1
        cand == [k \in 1..(side * side) |->
                    <<x + ((k - 1) % side) - radius,
                      y + ((k - 1) \div side) - radius>>]
        inside(p) == /\ p[1] >= 0 /\ p[2] >= 0
                     /\ p[1] < canvas_width /\ p[2] < canvas_height
    IN  SelectSeq(cand, inside)

\* u32::saturating_sub
SatSub(a, b) == IF a > b THEN a - b ELSE 0

\* The order of (u32, u32): by x, then by y.
PosLess(p, q) == p[1] < q[1] \/ (p[1] = q[1] /\ p[2] < q[2])

RECURSIVE SortedOf(_)
SortedOf(S) ==
    IF S = {} THEN <<>>
    ELSE LET m == CHOOSE p \in S : \A q \in S : q = p \/ PosLess(p, q)
         IN  <<m>> \o SortedOf(S \ {m})

\* The positions as collected: neither sorted nor deduplicated.
KeepAll(s) == s

\* Vec::sort followed by Vec::dedup
SortDedup(s) == SortedOf({s[i] : i \in DOMAIN s})

\* get_mirrored_positions
get_mirrored_positions(st, x, y) ==
    LET mirrored_x == SatSub(SatSub(st.canvas_width, 1), x)
        mirrored_y == SatSub(SatSub(st.canvas_height, 1), y)
    IN  SortDedup(
            <<<<x, y>>>>
            \o (IF st.mirror_horizontal THEN <<<<mirrored_x, y>>>> ELSE <<>>)
            \o (IF st.mirror_vertical THEN <<<<x, mirrored_y>>>> ELSE <<>>)
            \o (IF st.mirror_horizontal /\ st.mirror_vertical
                THEN <<<<mirrored_x, mirrored_y>>>> ELSE <<>>))

\* all_positions.extend(mirrored) for brush_pixels[k..]
RECURSIVE MirrorAll(_, _, _)
MirrorAll(st, brush_pixels, k) ==
    IF k > Len(brush_pixels) THEN <<>>
    ELSE get_mirrored_positions(st, brush_pixels[k][1], brush_pixels[k][2])
         \o MirrorAll(st, brush_pixels, k + 1)

\* The stamping loop of apply_pencil / apply_eraser over all_positions[k..]:
\* the state and the changes collected.
RECURSIVE StampFrom(_, _, _, _, _)
StampFrom(st, all_positions, k, color, changes) ==
    IF k > Len(all_positions) THEN [state |-> st, changes |-> changes]
    ELSE LET px == all_positions[k][1]
             py == all_positions[k][2]
         IN  IF px >= st.canvas_width \/ py >= st.canvas_height
                \/ ~HasActiveLayer(st)
             THEN StampFrom(st, all_positions, k + 1, color, changes)
             ELSE LET old_color == LayerGetPixel(active_layer(st), px, py)
                  IN  StampFrom(set_pixel(st, px, py, color), all_positions,
                                k + 1, color,
                                Append(changes, <<px, py, old_color, color>>))

\* A recording that makes a MultiPixelChange of a single change too.
RecordAsMulti(st, layer_index, changes) ==
    IF changes # <<>>
    THEN [st EXCEPT !.history =
             HistPush(st.history, MultiPixelChange(layer_index, changes))]
    ELSE st

\* "Record changes for undo": one PixelChange, one MultiPixelChange or nothing.
RecordChanges(st, layer_index, changes) ==
    IF Len(changes) = 1
    THEN [st EXCEPT !.history =
             HistPush(st.history,
                      PixelChange(layer_index, changes[1][1], changes[1][2],
                                  changes[1][3], changes[1][4]))]
    ELSE IF changes # <<>>
    THEN [st EXCEPT !.history =
             HistPush(st.history, MultiPixelChange(layer_index, changes))]
    ELSE st

\* apply_pencil and apply_eraser without the test of (x, y) against the
\* canvas.
ApplyBrushUnchecked(st, x, y, color) ==
    LET layer_index == st.active_layer_index
        brush_pixels == get_brush_pixels(x, y, st.brush_size,
                                         st.canvas_width, st.canvas_height)
        all_positions == SortDedup(MirrorAll(st, brush_pixels, 1))
        done == StampFrom(st, all_positions, 1, color, <<>>)
    IN  RecordChanges(done.state, layer_index, done.changes)

\* The common body of apply_pencil and apply_eraser.
ApplyBrush(st, x, y, color) ==
    IF x >= st.canvas_width \/ y >= st.canvas_height THEN st
    ELSE LET layer_index == st.active_layer_index
             brush_pixels == get_brush_pixels(x, y, st.brush_size,
                                              st.canvas_width, st.canvas_height)
             all_positions == SortDedup(MirrorAll(st, brush_pixels, 1))
             done == StampFrom(st, all_positions, 1, color, <<>>)
         IN  RecordChanges(done.state, layer_index, done.changes)

apply_pencil(st, x, y) == ApplyBrush(st, x, y, st.primary_color)

apply_eraser(st, x, y) == ApplyBrush(st, x, y, TRANSPARENT)

\* An eyedropper that reads the active layer's own pixel.
EyedropperOfActiveLayer(st, x, y) ==
    IF x >= st.canvas_width \/ y >= st.canvas_height THEN st
    ELSE LET color == LayerGetPixel(active_layer(st), x, y)
         IN  IF RLt(Rat(1, 100), color.a)
             THEN add_used_color([st EXCEPT !.primary_color = color], color)
             ELSE st

\* apply_eyedropper
apply_eyedropper(st, x, y) ==
    IF x >= st.canvas_width \/ y >= st.canvas_height THEN st
    ELSE LET color == get_pixel(st, x, y)
         IN  IF RLt(Rat(1, 100), color.a)
             THEN add_used_color([st EXCEPT !.primary_color = color], color)
             ELSE st

---------------------------------------------------------------------------
(* apply_fill.  Its local variables are a record: layer_index,             *)
(* target_color, primary_color, queue (a sequence of <<x, y>>), visited (a *)
(* set), changes, and iterations (the loop iterations run so far).         *)

\* Whether apply_fill gets to its loop: the seed is on the canvas, there is
\* an active layer, and its colour at the seed is not primary_color.
FillStarts(st, x, y) ==
    /\ x < st.canvas_width
    /\ y < st.canvas_height
    /\ HasActiveLayer(st)
    /\ LayerGetPixel(active_layer(st), x, y) # st.primary_color

\* The locals of a fill that takes its target colour from the composite.
FillLocalsOfComposite(st, x, y) ==
    [layer_index |-> st.active_layer_index,
     target_color |-> get_pixel(st, x, y),
     primary_color |-> st.primary_color,
     queue |-> <<<<x, y>>>>, visited |-> {<<x, y>>}, changes |-> <<>>,
     iterations |-> 0]

\* The locals when the loop is entered.
FillLocals(st, x, y) ==
    [layer_index |-> st.active_layer_index,
     target_color |-> LayerGetPixel(active_layer(st), x, y),
     primary_color |-> st.primary_color,
     queue |-> <<<<x, y>>>>, visited |-> {<<x, y>>}, changes |-> <<>>,
     iterations |-> 0]

FillOffsets == <<<<-1, 0>>, <<1, 0>>, <<0, -1>>, <<0, 1>>>>

\* "Add neighbors" for the offsets k.., given the queue and visited so far.
RECURSIVE FillNeighbors(_, _, _, _, _, _)
FillNeighbors(st, cx, cy, k, queue, visited) ==
    IF k > Len(FillOffsets) THEN [queue |-> queue, visited |-> visited]
    ELSE LET nx == cx + FillOffsets[k][1]
             ny == cy + FillOffsets[k][2]
         IN  IF /\ nx >= 0 /\ ny >= 0
                /\ <<nx, ny>> \notin visited
                /\ nx < st.canvas_width /\ ny < st.canvas_height
             THEN FillNeighbors(st, cx, cy, k + 1, Append(queue, <<nx, ny>>),
                                visited \cup {<<nx, ny>>})
             ELSE FillNeighbors(st, cx, cy, k + 1, queue, visited)

\* A loop body that enqueues neighbours without looking at visited.
FillIterationNoVisited(st, f) ==
    LET cx == Head(f.queue)[1]
        cy == Head(f.queue)[2]
        popped == [f EXCEPT !.queue = Tail(f.queue),
                            !.iterations = f.iterations + 1]
        layer == st.layers[f.layer_index + 1]
    IN  IF cx >= st.canvas_width \/ cy >= st.canvas_height
        THEN [state |-> st, locals |-> popped]
        ELSE IF LayerGetPixel(layer, cx, cy) # f.target_color
        THEN [state |-> st, locals |-> popped]
        ELSE LET n == FillNeighbors(st, cx, cy, 1, popped.queue, {})
             IN  [state |-> [st EXCEPT !.layers[f.layer_index + 1] =
                                LayerSetPixel(layer, cx, cy, f.primary_color)],
                  locals |-> [popped EXCEPT
                                !.changes = Append(f.changes,
                                    <<cx, cy, f.target_color, f.primary_color>>),
                                !.queue = n.queue,
                                !.visited = f.visited \cup n.visited]]

\* A loop body that fills across corners too (8-connected).
FillIterationDiagonal(st, f) ==
    LET cx == Head(f.queue)[1]
        cy == Head(f.queue)[2]
        popped == [f EXCEPT !.queue = Tail(f.queue),
                            !.iterations = f.iterations + 1]
        layer == st.layers[f.layer_index + 1]
        more == {p \in {<<cx + dx, cy + dy>> : dx \in {-1, 1}, dy \in {-1, 1}} :
                    /\ p[1] >= 0 /\ p[2] >= 0 /\ p \notin f.visited
                    /\ p[1] < st.canvas_width /\ p[2] < st.canvas_height}
    IN  IF cx >= st.canvas_width \/ cy >= st.canvas_height
        THEN [state |-> st, locals |-> popped]
        ELSE IF LayerGetPixel(layer, cx, cy) # f.target_color
        THEN [state |-> st, locals |-> popped]
        ELSE LET n == FillNeighbors(st, cx, cy, 1, popped.queue \o SortedOf(more),
                                    f.visited \cup more)
             IN  [state |-> [st EXCEPT !.layers[f.layer_index + 1] =
                                LayerSetPixel(layer, cx, cy, f.primary_color)],
                  locals |-> [popped EXCEPT
                                !.changes = Append(f.changes,
                                    <<cx, cy, f.target_color, f.primary_color>>),
                                !.queue = n.queue, !.visited = n.visited]]

\* One iteration of `while let Some((cx, cy)) = queue.pop_front()`, the queue
\* not empty: the state and the locals after it.
FillIteration(st, f) ==
    LET cx == Head(f.queue)[1]
        cy == Head(f.queue)[2]
        popped == [f EXCEPT !.queue = Tail(f.queue),
                            !.iterations = f.iterations + 1]
        layer == st.layers[f.layer_index + 1]
    IN  IF cx >= st.canvas_width \/ cy >= st.canvas_height
        THEN [state |-> st, locals |-> popped]
        ELSE IF LayerGetPixel(layer, cx, cy) # f.target_color
        THEN [state |-> st, locals |-> popped]
        ELSE LET n == FillNeighbors(st, cx, cy, 1, popped.queue, f.visited)
             IN  [state |-> [st EXCEPT !.layers[f.layer_index + 1] =
                                LayerSetPixel(layer, cx, cy, f.primary_color)],
                  locals |-> [popped EXCEPT
                                !.changes = Append(f.changes,
                                    <<cx, cy, f.target_color, f.primary_color>>),
                                !.queue = n.queue, !.visited = n.visited]]

\* A commit that pushes one command for every change.
RECURSIVE PushEachChange(_, _, _, _)
PushEachChange(h, layer_index, changes, k) ==
    IF k > Len(changes) THEN h
    ELSE PushEachChange(HistPush(h, MultiPixelChange(layer_index,
                                                     <<changes[k]>>)),
                        layer_index, changes, k + 1)

FillCommitPerPixel(st, f) ==
    [st EXCEPT !.history = PushEachChange(st.history, f.layer_index,
                                          f.changes, 1)]

\* After the loop: the changes, if any, go to the history as one command.
FillCommit(st, f) ==
    IF f.changes # <<>>
    THEN [st EXCEPT !.history =
             HistPush(st.history, MultiPixelChange(f.layer_index, f.changes))]
    ELSE st

RECURSIVE FillLoop(_, _)
FillLoop(st, f) ==
    IF f.queue = <<>> THEN FillCommit(st, f)
    ELSE LET next == FillIteration(st, f)
         IN  FillLoop(next.state, next.locals)

\* apply_fill
apply_fill(st, x, y) ==
    IF FillStarts(st, x, y) THEN FillLoop(st, FillLocals(st, x, y)) ELSE st

---------------------------------------------------------------------------
(* Selection and clipboard.  A Rectangle has f32 fields x, y, width and    *)
(* height (rationals here).                                                *)

Rectangle(x, y, width, height) ==
    [x |-> x, y |-> y, width |-> width, height |-> height]

\* `f as i32`: truncation toward zero.
AsI32(q) == IF q[1] >= 0 THEN q[1] \div q[2] ELSE -((-q[1]) \div q[2])

\* The clamped rectangle that get_selection_pixels, CopySelection and
\* CutSelection all compute from the selection.
ClampedRect(st, selection) ==
    [start_x |-> clamp_u32(AsI32(selection.x), 0, st.canvas_width),
     start_y |-> clamp_u32(AsI32(selection.y), 0, st.canvas_height),
     end_x |-> clamp_u32(AsI32(RAdd(selection.x, selection.width)), 0,
                         st.canvas_width),
     end_y |-> clamp_u32(AsI32(RAdd(selection.y, selection.height)), 0,
                         st.canvas_height)]

\* get_selection_pixels reading the active layer instead of the composite.
SelectionPixelsOfActiveLayer(st, selection) ==
    LET r == ClampedRect(st, selection)
        width == r.end_x - r.start_x
        height == r.end_y - r.start_y
        rgba == [k \in 0..(width * height - 1) |->
                    color_to_rgba8(LayerGetPixel(active_layer(st),
                                                 r.start_x + (k % width),
                                                 r.start_y + (k \div width)))]
    IN  IF r.start_x >= r.end_x \/ r.start_y >= r.end_y THEN None
        ELSE Some([i \in 1..(width * height * 4) |->
                      rgba[(i - 1) \div 4][((i - 1) % 4) + 1]])

\* get_selection_pixels: None, or Some(the RGBA8 buffer of the composite).
get_selection_pixels(st, selection) ==
    LET r == ClampedRect(st, selection)
        width == r.end_x - r.start_x
        height == r.end_y - r.start_y
        rgba == [k \in 0..(width * height - 1) |->
                    color_to_rgba8(get_pixel(st, r.start_x + (k % width),
                                             r.start_y + (k \div width)))]
    IN  IF r.start_x >= r.end_x \/ r.start_y >= r.end_y THEN None
        ELSE Some([i \in 1..(width * height * 4) |->
                      rgba[(i - 1) \div 4][((i - 1) % 4) + 1]])

ClipboardData(pixels, width, height) ==
    [pixels |-> pixels, width |-> width, height |-> height]

\* The loops of paste_pixels from cell k (y = k / width, x = k % width) on:
\* the layer and the changes collected.
RECURSIVE PasteFrom(_, _, _, _, _, _, _, _, _, _)
PasteFrom(layer, pixels, start_x, start_y, width, height, cw, ch, k, changes) ==
    IF k >= width * height THEN [layer |-> layer, changes |-> changes]
    ELSE LET sum_x == U32Add(start_x, ToU32(k % width)).value
             sum_y == U32Add(start_y, ToU32(k \div width)).value
             canvas_x == FromU32(sum_x)
             canvas_y == FromU32(sum_y)
             index == k * 4
         IN  IF ~U32Lt(sum_x, ToU32(cw)) \/ ~U32Lt(sum_y, ToU32(ch))
                \/ ~(index + 3 < Len(pixels))
             THEN PasteFrom(layer, pixels, start_x, start_y, width, height,
                            cw, ch, k + 1, changes)
             ELSE LET old_color == LayerGetPixel(layer, canvas_x, canvas_y)
                      new_color == rgba8_to_color(
                          <<pixels[index + 1], pixels[index + 2],
                            pixels[index + 3], pixels[index + 4]>>)
                  IN  PasteFrom(LayerSetPixel(layer, canvas_x, canvas_y, new_color),
                                pixels, start_x, start_y, width, height, cw, ch,
                                k + 1,
                                Append(changes,
                                       <<canvas_x, canvas_y, old_color, new_color>>))

\* paste_pixels
paste_pixels(st, pixels, start_x, start_y, width, height) ==
    IF HasActiveLayer(st)
    THEN LET done == PasteFrom(active_layer(st), pixels, start_x, start_y,
                               width, height, st.canvas_width,
                               st.canvas_height, 0, <<>>)
             written == [st EXCEPT !.layers[st.active_layer_index + 1] =
                                       done.layer]
         IN  IF done.changes # <<>>
             THEN [written EXCEPT !.history =
                      HistPush(st.history,
                               MultiPixelChange(st.active_layer_index,
                                                done.changes))]
             ELSE written
    ELSE st

---------------------------------------------------------------------------
(* update: one operator per Message, from the state it finds to the state  *)
(* it leaves.                                                              *)

ToolSelected(st, tool) == [st EXCEPT !.current_tool = tool]

PrimaryColorChanged(st, color) == [st EXCEPT !.primary_color = color]

BrushSizeChanged(st, size) ==
    [st EXCEPT !.brush_size = IF size < 1 THEN 1
                              ELSE IF size > 20 THEN 20 ELSE size]

MirrorHorizontalToggled(st) ==
    [st EXCEPT !.mirror_horizontal = ~st.mirror_horizontal]

MirrorVerticalToggled(st) ==
    [st EXCEPT !.mirror_vertical = ~st.mirror_vertical]

CanvasResized(st, width, height) ==
    [st EXCEPT !.canvas_width = width, !.canvas_height = height,
               !.layers = [i \in 1..Len(st.layers) |->
                              [st.layers[i] EXCEPT
                                  !.pixels = Zeros(FromU32(
                                      BufferSize(width, height).value)),
                                  !.width = width, !.height = height]]]

LayerAdded(st, name) == add_layer(st, name)

LayerDeleted(st, index) == delete_layer(st, index)

\* CanvasCleared: layer.pixels.fill(0) on every layer.
CanvasCleared(st) ==
    [st EXCEPT !.layers = [i \in 1..Len(st.layers) |->
                              [st.layers[i] EXCEPT
                                  !.pixels = Zeros(Len(st.layers[i].pixels))]]]

\* LayerMoved { from, to }
LayerMoved(st, from, to) ==
    IF from < Len(st.layers) /\ to < Len(st.layers)
    THEN LET layer == st.layers[from + 1]
             active == st.active_layer_index
         IN  [st EXCEPT
                 !.layers = InsertAt(RemoveAt(st.layers, from), to, layer),
                 !.active_layer_index =
                     IF active = from THEN to
                     ELSE IF active = to /\ from < to THEN active - 1
                     ELSE IF active = to /\ from > to THEN active + 1
                     ELSE active]
    ELSE st

\* The side of the canvas FileNew creates.
NewCanvasSize == 32

\* FileNew: *state = EditorState::new(32, 32)
FileNew(st) == EditorStateNew(NewCanvasSize, NewCanvasSize)

LayerVisibilityToggled(st, index) ==
    IF index < Len(st.layers)
    THEN [st EXCEPT !.layers[index + 1].visible = ~st.layers[index + 1].visible]
    ELSE st

\* LayerSelected without the test of its index.
LayerSelectedUnchecked(st, index) == [st EXCEPT !.active_layer_index = index]

LayerSelected(st, index) ==
    IF index < Len(st.layers) THEN [st EXCEPT !.active_layer_index = index]
    ELSE st

\* clamp_f32(opacity, 0.0, 1.0)
LayerOpacityChanged(st, index, opacity) ==
    IF index < Len(st.layers)
    THEN [st EXCEPT !.layers[index + 1].opacity =
                        RMin(RMax(opacity, RInt(0)), RInt(1))]
    ELSE st

\* DrawingStarted up to its `match state.current_tool`.
DrawingStartedEntry(st, x, y) ==
    LET is_selection_tool == st.current_tool = "Selection"
        is_eyedropper == st.current_tool = "Eyedropper"
    IN  [st EXCEPT !.is_drawing = ~is_selection_tool /\ ~is_eyedropper,
                   !.is_selecting = is_selection_tool,
                   !.last_pixel = Some(<<x, y>>)]

DrawingStarted(st, x, y) ==
    LET s1 == DrawingStartedEntry(st, x, y)
    IN  CASE st.current_tool = "Pencil" -> apply_pencil(s1, x, y)
          [] st.current_tool = "Eraser" -> apply_eraser(s1, x, y)
          [] st.current_tool = "Fill" -> apply_fill(s1, x, y)
          [] st.current_tool = "Selection" ->
                [s1 EXCEPT !.selection =
                    Rectangle(RInt(x), RInt(y), RInt(0), RInt(0))]
          [] st.current_tool = "Eyedropper" -> apply_eyedropper(s1, x, y)

\* A PixelDrawn that does not compare the position with last_pixel.
PixelDrawnUnsuppressed(st, x, y) ==
    IF st.is_drawing
    THEN LET s1 == [st EXCEPT !.last_pixel = Some(<<x, y>>)]
         IN  CASE st.current_tool = "Pencil" -> apply_pencil(s1, x, y)
               [] st.current_tool = "Eraser" -> apply_eraser(s1, x, y)
               [] OTHER -> s1
    ELSE st

\* A PixelDrawn that fills when the fill tool is dragged.
PixelDrawnFilling(st, x, y) ==
    IF st.is_drawing /\ st.last_pixel # Some(<<x, y>>)
    THEN LET s1 == [st EXCEPT !.last_pixel = Some(<<x, y>>)]
         IN  CASE st.current_tool = "Pencil" -> apply_pencil(s1, x, y)
               [] st.current_tool = "Eraser" -> apply_eraser(s1, x, y)
               [] st.current_tool = "Fill" -> apply_fill(s1, x, y)
               [] OTHER -> s1
    ELSE st

PixelDrawn(st, x, y) ==
    IF st.is_drawing /\ st.last_pixel # Some(<<x, y>>)
    THEN LET s1 == [st EXCEPT !.last_pixel = Some(<<x, y>>)]
         IN  CASE st.current_tool = "Pencil" -> apply_pencil(s1, x, y)
               [] st.current_tool = "Eraser" -> apply_eraser(s1, x, y)
               [] OTHER -> s1
    ELSE st

DrawingEnded(st) ==
    [st EXCEPT !.is_drawing = FALSE, !.last_pixel = None,
               !.is_selecting = IF st.current_tool # "Selection" THEN FALSE
                                ELSE st.is_selecting]

\* (pixel_count as f32).sqrt() as u32
Isqrt(n) == CHOOSE r \in 0..n : r * r <= n /\ (r + 1) * (r + 1) > n

\* FileLoaded once width, height and pixels are known: the image becomes a
\* new active layer; a canvas smaller than the image grows, and every layer
\* that is not of the new canvas size is replaced by an empty one.
ImportLayer(st, width, height, pixels) ==
    LET new_layer == [LayerNew("Imported", width, height) EXCEPT
                          !.pixels = pixels]
        s1 == [st EXCEPT !.layers = Append(st.layers, new_layer),
                         !.active_layer_index = Len(st.layers)]
        cw == IF width > st.canvas_width THEN width ELSE st.canvas_width
        ch == IF height > st.canvas_height THEN height ELSE st.canvas_height
    IN  IF width > st.canvas_width \/ height > st.canvas_height
        THEN [s1 EXCEPT
                 !.canvas_width = cw, !.canvas_height = ch,
                 !.layers = [i \in 1..Len(s1.layers) |->
                     IF s1.layers[i].width # cw \/ s1.layers[i].height # ch
                     THEN [s1.layers[i] EXCEPT !.pixels = Zeros(cw * ch * 4),
                                               !.width = cw, !.height = ch]
                     ELSE s1.layers[i]]]
        ELSE s1

\* FileLoaded { path, data }.  file is what load_image(path) returns when
\* data is empty: None for an error, or Some of width, height and pixels.
FileLoaded(st, data, file) ==
    IF data # <<>>
    THEN LET size == Isqrt(Len(data) \div 4)
         IN  ImportLayer(st, size, size, data)
    ELSE IF file = None THEN st
    ELSE ImportLayer(st, file.some.width, file.some.height, file.some.pixels)

\* layer.set_pixel(x, y, color) for changes[k..], color the old (which = 3)
\* or the new (which = 4) colour of each change.
RECURSIVE ApplyChanges(_, _, _, _)
ApplyChanges(layer, changes, k, which) ==
    IF k > Len(changes) THEN layer
    ELSE ApplyChanges(LayerSetPixel(layer, changes[k][1], changes[k][2],
                                    changes[k][which]),
                      changes, k + 1, which)

\* An undo that writes the new colours back: it undoes nothing.
UndoWritingNewColor(st, command) ==
    IF command.layer_index < Len(st.layers)
    THEN LET layer == st.layers[command.layer_index + 1]
         IN  [st EXCEPT !.layers[command.layer_index + 1] =
                 IF command.type = "PixelChange"
                 THEN LayerSetPixel(layer, command.x, command.y,
                                    command.new_color)
                 ELSE ApplyChanges(layer, command.changes, 1, 4)]
    ELSE st

\* apply_undo_command
apply_undo_command(st, command) ==
    IF command.layer_index < Len(st.layers)
    THEN LET layer == st.layers[command.layer_index + 1]
         IN  [st EXCEPT !.layers[command.layer_index + 1] =
                 IF command.type = "PixelChange"
                 THEN LayerSetPixel(layer, command.x, command.y,
                                    command.old_color)
                 ELSE ApplyChanges(layer, command.changes, 1, 3)]
    ELSE st

\* A redo that writes the old colours: it redoes nothing.
RedoWritingOldColor(st, command) ==
    IF command.layer_index < Len(st.layers)
    THEN LET layer == st.layers[command.layer_index + 1]
         IN  [st EXCEPT !.layers[command.layer_index + 1] =
                 IF command.type = "PixelChange"
                 THEN LayerSetPixel(layer, command.x, command.y,
                                    command.old_color)
                 ELSE ApplyChanges(layer, command.changes, 1, 3)]
    ELSE st

\* apply_redo_command
apply_redo_command(st, command) ==
    IF command.layer_index < Len(st.layers)
    THEN LET layer == st.layers[command.layer_index + 1]
         IN  [st EXCEPT !.layers[command.layer_index + 1] =
                 IF command.type = "PixelChange"
                 THEN LayerSetPixel(layer, command.x, command.y,
                                    command.new_color)
                 ELSE ApplyChanges(layer, command.changes, 1, 4)]
    ELSE st

Undo(st) ==
    LET u == HistUndo(st.history)
        s1 == [st EXCEPT !.history = u.history]
    IN  IF u.result = None THEN s1 ELSE apply_undo_command(s1, u.result.some)

Redo(st) ==
    LET r == HistRedo(st.history)
        s1 == [st EXCEPT !.history = r.history]
    IN  IF r.result = None THEN s1 ELSE apply_redo_command(s1, r.result.some)

SelectionStarted(st, x, y) ==
    [st EXCEPT !.is_selecting = TRUE,
               !.selection = Rectangle(x, y, RInt(0), RInt(0))]

SelectionUpdated(st, x, y) ==
    IF ~st.is_selecting THEN st
    ELSE IF st.selection # None
    THEN [st EXCEPT !.selection =
             [st.selection EXCEPT !.width = RSub(x, st.selection.x),
                                  !.height = RSub(y, st.selection.y)]]
    ELSE IF st.current_tool = "Selection"
    THEN [st EXCEPT !.selection = Rectangle(x, y, RInt(0), RInt(0))]
    ELSE st

\* A normalisation that flips the extent and leaves the origin where it was.
NormalizeAxisKeepingOrigin(origin, extent) ==
    IF RLt(extent, RInt(0))
    THEN [origin |-> origin, extent |-> <<-extent[1], extent[2]>>]
    ELSE [origin |-> origin, extent |-> extent]

\* The two `if` of SelectionEnded, one axis each: origin and extent.
NormalizeAxis(origin, extent) ==
    IF RLt(extent, RInt(0))
    THEN [origin |-> RAdd(origin, extent), extent |-> <<-extent[1], extent[2]>>]
    ELSE [origin |-> origin, extent |-> extent]

SelectionEnded(st) ==
    LET s1 == [st EXCEPT !.is_selecting = FALSE]
    IN  IF st.selection = None THEN s1
        ELSE LET h == NormalizeAxis(st.selection.x, st.selection.width)
                 v == NormalizeAxis(st.selection.y, st.selection.height)
             IN  [s1 EXCEPT !.selection =
                     Rectangle(h.origin, v.origin, h.extent, v.extent)]

SelectionCleared(st) == [st EXCEPT !.selection = None, !.is_selecting = FALSE]

\* A CopySelection that empties the clipboard when there is nothing to copy.
CopySelectionOrEmpty(st) ==
    LET got == IF st.selection = None THEN None
               ELSE get_selection_pixels(st, st.selection)
        r == ClampedRect(st, st.selection)
    IN  IF got = None
        THEN [st EXCEPT !.clipboard = ClipboardData(<<>>, 0, 0)]
        ELSE [st EXCEPT !.clipboard =
                 ClipboardData(got.some, SatSub(r.end_x, r.start_x),
                               SatSub(r.end_y, r.start_y))]

CopySelection(st) ==
    IF st.selection = None THEN st
    ELSE LET got == get_selection_pixels(st, st.selection)
             r == ClampedRect(st, st.selection)
         IN  IF got = None THEN st
             ELSE [st EXCEPT !.clipboard =
                      ClipboardData(got.some, SatSub(r.end_x, r.start_x),
                                    SatSub(r.end_y, r.start_y))]

\* A paste that takes the clipboard's height for its width.
PasteSelectionTransposed(st, x, y) ==
    IF st.clipboard = None THEN st
    ELSE paste_pixels(st, st.clipboard.pixels, ToU32(x), ToU32(y),
                      st.clipboard.height, st.clipboard.width)

\* PasteSelection { x, y } for u32 x and y.
PasteSelectionAt(st, x, y) ==
    IF st.clipboard = None THEN st
    ELSE paste_pixels(st, st.clipboard.pixels, x, y, st.clipboard.width,
                      st.clipboard.height)

\* PasteSelection { x, y } for numbers x and y.
PasteSelection(st, x, y) == PasteSelectionAt(st, ToU32(x), ToU32(y))

\* "Clear the selected area": layer.set_pixel(x, y, TRANSPARENT) from cell k
\* of the rectangle on, rows first.
RECURSIVE ClearFrom(_, _, _)
ClearFrom(layer, r, k) ==
    LET width == r.end_x - r.start_x
        height == r.end_y - r.start_y
    IN  IF k >= width * height THEN layer
        ELSE ClearFrom(LayerSetPixel(layer, r.start_x + (k % width),
                                     r.start_y + (k \div width), TRANSPARENT),
                       r, k + 1)

CutSelection(st) ==
    IF st.selection = None THEN st
    ELSE LET got == get_selection_pixels(st, st.selection)
             r == ClampedRect(st, st.selection)
             copied == [st EXCEPT !.clipboard =
                           ClipboardData(got.some, SatSub(r.end_x, r.start_x),
                                         SatSub(r.end_y, r.start_y))]
         IN  IF got = None THEN st
             ELSE IF HasActiveLayer(copied)
             THEN [copied EXCEPT !.layers[st.active_layer_index + 1] =
                      ClearFrom(active_layer(copied), r, 0)]
             ELSE copied

---------------------------------------------------------------------------
(* save_image: the flattening of the visible layers into rgba_data.        *)

\* "Alpha blend" of save_image: the output pixel `out` (four bytes) after
\* the layer's pixel at (x, y), which is read at the canvas's row width.
SaveBlend(out, layer, x, y, width) ==
    LET index == (y * width + x) * 4
    IN  IF index + 3 >= Len(layer.pixels) THEN out
        ELSE LET r == layer.pixels[index + 1]
                 g == layer.pixels[index + 2]
                 b == layer.pixels[index + 3]
                 a == layer.pixels[index + 4]
                 alpha == RMul(Rat(a, 255), layer.opacity)
                 inv_alpha == RSub(RInt(1), alpha)
                 mix(c, o) == TruncU8(RAdd(RMul(RInt(c), alpha),
                                           RMul(RInt(o), inv_alpha)))
             IN  <<mix(r, out[1]), mix(g, out[2]), mix(b, out[3]),
                   TruncU8(RMin(RAdd(RInt(out[4]),
                                     RMul(RInt(a), layer.opacity)),
                                RInt(255)))>>

\* The loop over layers[k..] for the pixel (x, y), the output so far `out`.
RECURSIVE SavePixelFrom(_, _, _, _, _, _)
SavePixelFrom(layers, k, x, y, width, out) ==
    IF k > Len(layers) THEN out
    ELSE IF ~layers[k].visible
    THEN SavePixelFrom(layers, k + 1, x, y, width, out)
    ELSE SavePixelFrom(layers, k + 1, x, y, width,
                       SaveBlend(out, layers[k], x, y, width))

\* save_image: rgba_data as it is handed to the image encoder.
save_image(st) ==
    LET width == st.canvas_width
        height == st.canvas_height
        pixel == [k \in 0..(width * height - 1) |->
                     SavePixelFrom(st.layers, 1, k % width, k \div width,
                                   width, <<0, 0, 0, 0>>)]
    IN  [i \in 1..(width * height * 4) |->
            pixel[(i - 1) \div 4][((i - 1) % 4) + 1]]

---------------------------------------------------------------------------
(* The history driven alone: push, undo and redo of numbered commands.     *)
(* The k-th command pushed is the number k, so a command is told from      *)
(* every other one.  A run starts from a new history or from one that a    *)
(* number of pushes has filled up to its limit.                            *)
(* aux: op (the last operation), ret (what the last undo or redo           *)
(* returned), pushed (commands pushed so far), streak (pushes since the    *)
(* last undo or redo), tail (the redo tail the last operation found),      *)
(* before (the cursor the last operation found), lost (the first commands  *)
(* of a streak of more than HistoryLimit pushes).                          *)

\* Pushes in a run, after those that filled the history.
MaxPushes == 2

\* The history after pushing the commands from + 1 .. from + n onto h.
RECURSIVE PushN(_, _, _)
PushN(h, from, n) ==
    IF n = 0 THEN h
    ELSE IF n = 1 THEN HistPush(h, from + 1)
    ELSE LET half == n \div 2
             left == PushN(h, from, half)
         IN  IF left.current_index >= 0
             THEN PushN(left, from + half, n - half)
             ELSE left

Prefills == {0, HistoryLimit - 1, HistoryLimit}

HistInit ==
    \E k \in Prefills :
        /\ state = [history |-> PushN(HistoryNew, 0, k)]
        /\ locals = None
        /\ aux = [op |-> "new", ret |-> None, pushed |-> k, streak |-> k,
                  tail |-> 0, before |-> 0, lost |-> {}, run |-> k]

HistPushStep ==
    /\ aux.pushed < aux.run + MaxPushes
    /\ UNCHANGED locals
    /\ LET h == state.history
           id == aux.pushed + 1
       IN  /\ state' = [state EXCEPT !.history = HistPush(h, id)]
           /\ aux' = [aux EXCEPT !.op = "push", !.ret = None, !.pushed = id,
                          !.streak = aux.streak + 1,
                          !.tail = Len(h.commands) - h.current_index,
                          !.before = h.current_index,
                          !.lost = IF aux.streak + 1 > HistoryLimit
                                   THEN aux.lost \cup {id - aux.streak}
                                   ELSE aux.lost]

HistUndoStep ==
    LET h == state.history
        u == HistUndo(h)
    IN  /\ state' = [state EXCEPT !.history = u.history]
        /\ UNCHANGED locals
        /\ aux' = [aux EXCEPT !.op = "undo", !.ret = u.result, !.streak = 0,
                       !.tail = Len(h.commands) - h.current_index,
                       !.before = h.current_index]

HistRedoStep ==
    LET h == state.history
        r == HistRedo(h)
    IN  /\ state' = [state EXCEPT !.history = r.history]
        /\ UNCHANGED locals
        /\ aux' = [aux EXCEPT !.op = "redo", !.ret = r.result, !.streak = 0,
                       !.tail = Len(h.commands) - h.current_index,
                       !.before = h.current_index]

HistNext == HistPushStep \/ HistUndoStep \/ HistRedoStep

SpecHist == HistInit /\ [][HistNext]_vars

\* C3: after a push, whatever undos came before it, no command is left at or
\* after the cursor: can_redo is false, and redo returns None and leaves the
\* history as it is.
PushDiscardsRedoTail ==
    aux.op = "push" =>
        LET h == state.history
        IN  /\ Len(h.commands) = h.current_index
            /\ ~can_redo(h)
            /\ HistRedo(h).result = None
            /\ HistRedo(h).history = h

\* A push that found a redo tail of two commands behind the cursor.
PushAfterUndoSeen == aux.op = "push" /\ aux.tail >= 2

\* C4: the history never holds more than 100 commands; after more than 100
\* pushes in a row it holds the 100 pushed last, in push order; and no undo
\* returns the first command of such a streak.
HistoryBounded ==
    LET h == state.history
    IN  /\ Len(h.commands) <= HistoryLimit
        /\ aux.streak > HistoryLimit =>
              h.commands = [i \in 1..HistoryLimit |->
                               aux.pushed - HistoryLimit + i]
        /\ aux.op = "undo" => \A e \in aux.lost : aux.ret # Some(e)

\* 101 pushes in a row were made and undo has then been called until it
\* returned None.
OldestLostSeen ==
    /\ aux.lost # {}
    /\ aux.op = "undo"
    /\ aux.ret = None
    /\ Len(state.history.commands) = HistoryLimit

\* C5: the cursor is always between 0 and the number of commands; the push
\* that evicts the oldest command leaves the cursor where it found it (one
\* up, one down), just past the command pushed.
CursorInRange ==
    LET h == state.history
    IN  /\ 0 <= h.current_index
        /\ h.current_index <= Len(h.commands)
        /\ (aux.op = "push" /\ aux.before >= HistoryLimit) =>
              /\ h.current_index = aux.before
              /\ h.current_index = Len(h.commands)
              /\ h.commands[h.current_index] = aux.pushed

\* A push that found the history full with the cursor at its end.
EvictingPushSeen ==
    /\ aux.op = "push"
    /\ aux.before = HistoryLimit
    /\ aux.tail = 0

---------------------------------------------------------------------------
(* Inputs shared by the specifications of the editor *)

\* The canvas is CanvasW x CanvasH.
CanvasW == 2
CanvasH == 2

Red == MkColor(RInt(1), RInt(0), RInt(0), RInt(1))
\* Half-transparent, and off the RGBA8 grid: it is stored as (128, 0, 255, 128).
Soft == MkColor(Rat(1, 2), RInt(0), RInt(1), Rat(1, 2))

Palette == {BLACK, Red, Soft}

Xs == 0..(CanvasW - 1)
Ys == 0..(CanvasH - 1)

\* The RGBA8 pixels an opened image is made of.
Texels == {<<0, 0, 0, 0>>, <<0, 0, 0, 255>>}

\* The raw pixel data of the images of n x n pixels.
Images(n) ==
    {[i \in 1..(4 * n * n) |-> f[((i - 1) \div 4) + 1][((i - 1) % 4) + 1]] :
        f \in [1..(n * n) -> Texels]}

\* The pixel buffers of all layers.
Pix(st) == [i \in 1..Len(st.layers) |-> st.layers[i].pixels]

---------------------------------------------------------------------------
(* Pencil strokes, then undos, then redos.  A run starts from a new editor *)
(* or from one in which HistoryLimit clicks on pixel (0, 0) have filled    *)
(* the history; it goes on with at most MaxFree messages (strokes, and     *)
(* changes of colour, brush size, mirror flags and active layer, a new     *)
(* layer or an opened image before the first stroke), or at                *)
(* most MaxOver of them once the history is full, then as many Undo as     *)
(* there were strokes, then as many Redo.                                  *)
(* aux: op, strokes, undos, redos (how many of each so far), free (the     *)
(* messages used of MaxFree), snaps (the pixel buffers before the first    *)
(* stroke and after each stroke: strokes + 1 entries).                     *)

MaxFree == 2
MaxOver == 1

\* Brush sizes offered to BrushSizeChanged.
BrushSizes == {1, 2}

\* The state and the snapshots after n more clicks on pixel (0, 0).
RECURSIVE ClickN(_, _)
ClickN(r, n) ==
    IF n = 0 THEN r
    ELSE IF n = 1
    THEN LET s1 == DrawingStarted(r.state, 0, 0)
         IN  [state |-> s1, snaps |-> Append(r.snaps, Pix(s1))]
    ELSE LET half == n \div 2
             left == ClickN(r, half)
         IN  IF Len(left.snaps) > 0 THEN ClickN(left, n - half) ELSE left

StrokeInit ==
    \E k \in {0, HistoryLimit}, new \in {EditorStateNew(CanvasW, CanvasH)} :
        \E r \in {ClickN([state |-> new, snaps |-> <<Pix(new)>>], k)} :
            /\ state = r.state
            /\ locals = None
            /\ aux = [op |-> "new", strokes |-> k, undos |-> 0, redos |-> 0,
                      free |-> 0, snaps |-> r.snaps]

Drawing ==
    /\ aux.undos = 0
    /\ aux.redos = 0
    /\ aux.free < (IF aux.strokes >= HistoryLimit THEN MaxOver ELSE MaxFree)

\* A message that is no stroke: the pixels stay, the last snapshot is renewed
\* (LayerAdded adds a buffer).
Setting(st, name) ==
    /\ Drawing
    /\ st # state
    /\ state' = st
    /\ UNCHANGED locals
    /\ aux' = [aux EXCEPT !.op = name, !.free = aux.free + 1,
                   !.snaps = [aux.snaps EXCEPT ![Len(aux.snaps)] = Pix(st)]]

StrokeStep ==
    \E x \in Xs, y \in Ys :
        /\ Drawing
        /\ state.current_tool = "Pencil"
        /\ state' = DrawingStarted(state, x, y)
        /\ UNCHANGED locals
        /\ aux' = [aux EXCEPT !.op = "stroke", !.free = aux.free + 1,
                       !.strokes = aux.strokes + 1,
                       !.snaps = Append(aux.snaps, Pix(state'))]

ColorStep == \E c \in Palette : Setting(PrimaryColorChanged(state, c), "color")

BrushStep == \E b \in BrushSizes : Setting(BrushSizeChanged(state, b), "brush")

MirrorHStep == Setting(MirrorHorizontalToggled(state), "mirror")

MirrorVStep == Setting(MirrorVerticalToggled(state), "mirror")

LayerAddedStep ==
    /\ aux.strokes = 0
    /\ Len(state.layers) < 2
    /\ Setting(LayerAdded(state, "Layer 2"), "layer")

LayerSelectedStep ==
    \E i \in 0..1 : Setting(LayerSelected(state, i), "select")

\* File > Open of an image of one pixel, before the strokes.
StrokeOpenStep ==
    \E data \in Images(1) :
        /\ aux.strokes = 0
        /\ Len(state.layers) < 2
        /\ Setting(FileLoaded(state, data, None), "open")

UndoStep ==
    /\ aux.redos = 0
    /\ aux.undos < aux.strokes
    /\ state' = Undo(state)
    /\ UNCHANGED locals
    /\ aux' = [aux EXCEPT !.op = "undo", !.undos = aux.undos + 1]

RedoStep ==
    /\ aux.strokes > 0
    /\ aux.undos = aux.strokes
    /\ aux.redos < aux.strokes
    /\ state' = Redo(state)
    /\ UNCHANGED locals
    /\ aux' = [aux EXCEPT !.op = "redo", !.redos = aux.redos + 1]

StrokeNext ==
    \/ StrokeStep
    \/ ColorStep
    \/ BrushStep
    \/ MirrorHStep
    \/ MirrorVStep
    \/ LayerAddedStep
    \/ LayerSelectedStep
    \/ StrokeOpenStep
    \/ UndoStep
    \/ RedoStep

SpecStroke == StrokeInit /\ [][StrokeNext]_vars

\* C1 as claimed: after N strokes and N undos, for every N, every layer's
\* pixels are what they were before the first of the N strokes.
UndoRestoresEveryStroke ==
    aux.redos = 0 => Pix(state) = aux.snaps[aux.strokes - aux.undos + 1]

\* C1 as amended: the same for N up to the 100 commands the history keeps.
UndoRestoresStrokes ==
    (aux.redos = 0 /\ aux.undos <= HistoryLimit) =>
        Pix(state) = aux.snaps[aux.strokes - aux.undos + 1]

\* 100 strokes were undone by 100 undos, and the undos changed the pixels.
HundredUndone ==
    /\ aux.op = "undo"
    /\ aux.undos = HistoryLimit
    /\ Pix(state) # aux.snaps[aux.strokes + 1]

\* C2: after N strokes, N undos and N redos, every layer's pixels are what
\* they were right after the N-th stroke.
RedoRestoresStrokes ==
    (aux.strokes > 0 /\ aux.undos = aux.strokes /\ aux.redos = aux.strokes) =>
        Pix(state) = aux.snaps[aux.strokes + 1]

\* N undos and N redos were made after N strokes, the last with a brush that
\* covers several pixels, and the undos had changed the pixels.
AllRedone ==
    /\ aux.strokes > 0
    /\ aux.undos = aux.strokes
    /\ aux.redos = aux.strokes
    /\ aux.snaps[1] # aux.snaps[aux.strokes + 1]
    /\ state.history.commands[Len(state.history.commands)].type
           = "MultiPixelChange"

---------------------------------------------------------------------------
(* One flood fill, followed through its loop.  A run inks some pixels of   *)
(* the new canvas with pencil clicks in raster order, or opens an image    *)
(* smaller than the canvas (File > Open sends FileLoaded with the file's   *)
(* pixels), may change the primary colour, selects the Fill tool and       *)
(* clicks a seed.  locals holds apply_fill's locals while its loop runs.   *)
(* aux: op, phase (0 inking, 1 image opened, 2 colour chosen, 3 Fill       *)
(* selected, 4 in apply_fill's loop, 5 after the click), inked (raster     *)
(* index of the last inked pixel), before (the layers when the seed was    *)
(* clicked), region (the pixels the seed is 4-connected to through the     *)
(* seed's colour), iters (the iterations the loop made).                   *)

\* Sizes of the opened images: smaller than the canvas.
ImageSizes == 1..(CanvasW - 1)

\* The four bytes of pixel (x, y) of a layer.
PixelBytes(layer, x, y) ==
    LET index == (y * layer.width + x) * 4
    IN  SubSeq(layer.pixels, index + 1, index + 4)

InLayer(layer, p) ==
    p[1] >= 0 /\ p[2] >= 0 /\ p[1] < layer.width /\ p[2] < layer.height

Adjacent4(p) ==
    {<<p[1] - 1, p[2]>>, <<p[1] + 1, p[2]>>,
     <<p[1], p[2] - 1>>, <<p[1], p[2] + 1>>}

\* S with the pixels of colour c that S is 4-connected to.
RECURSIVE Grow(_, _, _)
Grow(layer, c, S) ==
    LET more == {q \in UNION {Adjacent4(p) : p \in S} :
                    /\ q \notin S
                    /\ InLayer(layer, q)
                    /\ LayerGetPixel(layer, q[1], q[2]) = c}
    IN  IF more = {} THEN S ELSE Grow(layer, c, S \cup more)

\* The pixels of the layer that are 4-connected to pixel (x, y) through
\* pixels of its colour.
RegionOf(layer, x, y) ==
    IF InLayer(layer, <<x, y>>)
    THEN Grow(layer, LayerGetPixel(layer, x, y), {<<x, y>>})
    ELSE {}

FillInit ==
    /\ state = EditorStateNew(CanvasW, CanvasH)
    /\ locals = None
    /\ aux = [op |-> "new", phase |-> 0, inked |-> -1, before |-> <<>>,
              region |-> {}, iters |-> 0]

InkStep ==
    \E i \in (aux.inked + 1)..(CanvasW * CanvasH - 1) :
        /\ aux.phase = 0
        /\ state' = DrawingStarted(state, i % CanvasW, i \div CanvasW)
        /\ UNCHANGED locals
        /\ aux' = [aux EXCEPT !.op = "ink", !.inked = i]

OpenStep ==
    \E n \in ImageSizes : \E data \in Images(n) :
        /\ aux.phase = 0
        /\ aux.inked = -1
        /\ state' = FileLoaded(state, data, None)
        /\ UNCHANGED locals
        /\ aux' = [aux EXCEPT !.op = "open", !.phase = 1]

FillColorStep ==
    \E c \in Palette :
        /\ aux.phase <= 1
        /\ state' = PrimaryColorChanged(state, c)
        /\ UNCHANGED locals
        /\ aux' = [aux EXCEPT !.op = "color", !.phase = 2]

FillToolStep ==
    /\ aux.phase <= 2
    /\ state' = ToolSelected(state, "Fill")
    /\ UNCHANGED locals
    /\ aux' = [aux EXCEPT !.op = "tool", !.phase = 3]

\* DrawingStarted with the Fill tool, up to the first test of the loop.
FillBegin ==
    \E x \in 0..CanvasW, y \in Ys :
        LET s1 == DrawingStartedEntry(state, x, y)
        IN  /\ aux.phase = 3
            /\ FillStarts(s1, x, y)
            /\ state' = s1
            /\ locals' = FillLocals(s1, x, y)
            /\ aux' = [aux EXCEPT !.op = "seed", !.phase = 4,
                           !.before = state.layers,
                           !.region = RegionOf(active_layer(state), x, y)]

\* DrawingStarted with the Fill tool where apply_fill returns at once.
FillRefused ==
    \E x \in 0..CanvasW, y \in Ys :
        LET s1 == DrawingStartedEntry(state, x, y)
        IN  /\ aux.phase = 3
            /\ ~FillStarts(s1, x, y)
            /\ state' = s1
            /\ UNCHANGED locals
            /\ aux' = [aux EXCEPT !.op = "refused", !.phase = 5,
                           !.before = state.layers]

FillIter ==
    /\ aux.phase = 4
    /\ locals.queue # <<>>
    /\ LET next == FillIteration(state, locals)
       IN  /\ state' = next.state
           /\ locals' = next.locals
    /\ aux' = [aux EXCEPT !.op = "iterate"]

FillEnd ==
    /\ aux.phase = 4
    /\ locals.queue = <<>>
    /\ state' = FillCommit(state, locals)
    /\ locals' = None
    /\ aux' = [aux EXCEPT !.op = "filled", !.phase = 5,
                   !.iters = locals.iterations]

FillNext ==
    \/ InkStep
    \/ OpenStep
    \/ FillColorStep
    \/ FillToolStep
    \/ FillBegin
    \/ FillRefused
    \/ FillIter
    \/ FillEnd

SpecFill == FillInit /\ [][FillNext]_vars

\* The fill that ended changed the active layer's pixels of the region, all
\* of them, to the bytes of primary_color, and no other pixel of any layer.
FillExact ==
    LET k == state.active_layer_index + 1
        layer == state.layers[k]
        old == aux.before[k]
    IN  /\ \A x \in 0..(layer.width - 1), y \in 0..(layer.height - 1) :
              PixelBytes(layer, x, y) =
                  IF <<x, y>> \in aux.region
                  THEN into_rgba8(state.primary_color)
                  ELSE PixelBytes(old, x, y)
        /\ \A i \in 1..Len(state.layers) :
              i # k => state.layers[i] = aux.before[i]

\* C6: apply_fill at a seed on the canvas whose colour in the active layer
\* is not primary_color sets to primary_color exactly the pixels of the
\* active layer that are 4-connected to the seed through pixels of the seed's
\* colour, and changes no other pixel.
FillSetsExactlyRegion == aux.op = "filled" => FillExact

\* The same where the active layer has the size of the canvas.
FillExactOnCanvasSizedLayer ==
    (/\ aux.op = "filled"
     /\ active_layer(state).width = state.canvas_width
     /\ active_layer(state).height = state.canvas_height) => FillExact

\* A fill ended that left alone a pixel of the seed's colour, which the
\* region does not reach.
FillLeftOtherRegion ==
    /\ aux.op = "filled"
    /\ active_layer(state).width = state.canvas_width
    /\ \E x \in Xs, y \in Ys :
          /\ <<x, y>> \notin aux.region
          /\ \E p \in aux.region :
                PixelBytes(aux.before[state.active_layer_index + 1], x, y) =
                PixelBytes(aux.before[state.active_layer_index + 1], p[1], p[2])

\* C7: apply_fill terminates: a coordinate enters visited and the queue
\* together and once, so in the loop the iterations made plus the queue's
\* length is the size of visited, visited holds canvas coordinates only, and
\* the loop makes at most canvas_width * canvas_height iterations.
FillLoopBounded ==
    LET area == state.canvas_width * state.canvas_height
    IN  /\ aux.iters <= area
        /\ aux.phase = 4 =>
              /\ locals.iterations + Len(locals.queue)
                     = Cardinality(locals.visited)
              /\ \A i, j \in 1..Len(locals.queue) :
                    i # j => locals.queue[i] # locals.queue[j]
              /\ \A i \in 1..Len(locals.queue) :
                    locals.queue[i] \in locals.visited
              /\ locals.visited \subseteq
                     (0..(state.canvas_width - 1))
                         \X (0..(state.canvas_height - 1))
              /\ locals.iterations <= area

\* A fill ended whose loop ran once for every coordinate of the canvas.
FillVisitedAll ==
    /\ aux.op = "filled"
    /\ aux.iters = state.canvas_width * state.canvas_height
    /\ aux.iters > 1

---------------------------------------------------------------------------
(* Layers, selection, clipboard and export.  A run sets the canvas up: it  *)
(* may change the colour, click once with the pencil, add a second layer,  *)
(* select the active layer, change one opacity and toggle one visibility,  *)
(* in this order.  It then selects a rectangle (SelectionStarted, dragged  *)
(* with SelectionUpdated, then SelectionEnded), copies or cuts it and      *)
(* pastes.  The image can be exported after every step of the set-up.      *)
(* aux: op, phase (0 new, 1 colour, 2 drawn, 3 layer added, 4 layer        *)
(* selected, 5 opacity, 6 visibility, 7 selection started, 8 dragged, 9    *)
(* released, 10 copied or cut, 11 pasted), composite (get_pixel of every   *)
(* pixel before the copy or cut), from ("copy" or "cut" once the clipboard is filled), origin    *)
(* (whether the paste was at the origin of the rectangle), hist (the       *)
(* history cursor before the cut), cleared (the pixels of the clamped      *)
(* rectangle cut), exported (rgba_data of the last export).                *)

\* The opacities offered to LayerOpacityChanged.
Opacities == {Rat(1, 2), RInt(1)}

\* EditorState::get_pixel of every pixel, rows first.
CompositeOf(st) ==
    [k \in 0..(st.canvas_width * st.canvas_height - 1) |->
        get_pixel(st, k % st.canvas_width, k \div st.canvas_width)]

\* The RGBA8 encoding of the composite of every pixel, as a buffer.
EncodedComposite(st) ==
    [i \in 1..(st.canvas_width * st.canvas_height * 4) |->
        color_to_rgba8(CompositeOf(st)[(i - 1) \div 4])[((i - 1) % 4) + 1]]

\* The pixels of the clamped rectangle of the selection.
SelectedPixels(st) ==
    IF st.selection = None THEN {}
    ELSE LET r == ClampedRect(st, st.selection)
         IN  {p \in Xs \X Ys : /\ r.start_x <= p[1] /\ p[1] < r.end_x
                               /\ r.start_y <= p[2] /\ p[2] < r.end_y}

\* Where the run pastes: at the origin of the clamped rectangle, and at the
\* last pixel of the canvas, where the paste is clipped.
PastePoints(st) ==
    LET r == ClampedRect(st, st.selection)
    IN  {<<r.start_x, r.start_y>>, <<CanvasW - 1, CanvasH - 1>>}

ClipInit ==
    /\ state = EditorStateNew(CanvasW, CanvasH)
    /\ locals = None
    /\ aux = [op |-> "new", phase |-> 0, composite |-> <<>>, from |-> "",
              origin |-> FALSE, hist |-> 0, cleared |-> {},
              exported |-> <<>>]

\* A message that leads from a phase before `to` to the phase `to`.
Moves(st, name, to) ==
    /\ aux.phase < to
    /\ state' = st
    /\ UNCHANGED locals
    /\ aux' = [aux EXCEPT !.op = name, !.phase = to, !.exported = <<>>]

ClipColorStep ==
    \E c \in Palette \ {state.primary_color} :
        Moves(PrimaryColorChanged(state, c), "color", 1)

ClipDrawStep ==
    \E x \in Xs, y \in Ys : Moves(DrawingStarted(state, x, y), "draw", 2)

ClipLayerAddedStep == Moves(LayerAdded(state, "Layer 2"), "layer", 3)

ClipLayerSelectedStep ==
    \E i \in 0..(Len(state.layers) - 1) :
        /\ i # state.active_layer_index
        /\ Moves(LayerSelected(state, i), "select", 4)

ClipOpacityStep ==
    \E i \in 0..(Len(state.layers) - 1), o \in Opacities :
        /\ o # state.layers[i + 1].opacity
        /\ Moves(LayerOpacityChanged(state, i, o), "opacity", 5)

ClipVisibilityStep ==
    \E i \in 0..(Len(state.layers) - 1) :
        Moves(LayerVisibilityToggled(state, i), "visibility", 6)

\* FileSaveDialogResult: save_image writes the file, the state stays.
ExportStep ==
    /\ aux.phase <= 6
    /\ aux.op # "export"
    /\ UNCHANGED <<state, locals>>
    /\ aux' = [aux EXCEPT !.op = "export", !.exported = save_image(state)]

\* SelectionStarted at the corner of pixel (0, 0) (Ctrl+A) or (1, 1).
SelectStep ==
    \E o \in 0..1 : Moves(SelectionStarted(state, RInt(o), RInt(o)), "start", 7)

DragStep ==
    \E x \in 0..CanvasW, y \in 0..CanvasH :
        /\ aux.phase = 7
        /\ Moves(SelectionUpdated(state, RInt(x), RInt(y)), "drag", 8)

ReleaseStep ==
    /\ aux.op = "drag"
    /\ Moves(SelectionEnded(state), "release", 9)

CopyStep ==
    /\ aux.op = "release"
    /\ state' = CopySelection(state)
    /\ UNCHANGED locals
    /\ aux' = [aux EXCEPT !.op = "copy", !.phase = 10,
                          !.composite = CompositeOf(state),
                          !.from = "copy"]

CutStep ==
    /\ aux.op = "release"
    /\ state' = CutSelection(state)
    /\ UNCHANGED locals
    /\ aux' = [aux EXCEPT !.op = "cut", !.phase = 10,
                          !.composite = CompositeOf(state),
                          !.from = "cut",
                          !.hist = state.history.current_index,
                          !.cleared = SelectedPixels(state)]

PasteStep ==
    /\ aux.op \in {"copy", "cut"}
    /\ \E p \in PastePoints(state) :
          /\ state' = PasteSelection(state, p[1], p[2])
          /\ UNCHANGED locals
          /\ aux' = [aux EXCEPT
                       !.op = "paste", !.phase = 11,
                       !.origin =
                           LET r == ClampedRect(state, state.selection)
                           IN  p = <<r.start_x, r.start_y>>]

ClipNext ==
    \/ ClipColorStep
    \/ ClipDrawStep
    \/ ClipLayerAddedStep
    \/ ClipLayerSelectedStep
    \/ ClipOpacityStep
    \/ ClipVisibilityStep
    \/ ExportStep
    \/ SelectStep
    \/ DragStep
    \/ ReleaseStep
    \/ CopyStep
    \/ CutStep
    \/ PasteStep

SpecClip == ClipInit /\ [][ClipNext]_vars

\* C8: CutSelection of a selection whose clamped rectangle is not empty
\* makes every pixel of the active layer inside it fully transparent and
\* records one MultiPixelChange that covers the cleared pixels: the history
\* cursor advances by one.
CutClearsAndRecords ==
    (aux.op = "cut" /\ aux.cleared # {}) =>
        /\ \A p \in aux.cleared :
              PixelBytes(active_layer(state), p[1], p[2]) = <<0, 0, 0, 0>>
        /\ state.history.current_index = aux.hist + 1
        /\ LET command == state.history.commands[state.history.current_index]
           IN  /\ command.type = "MultiPixelChange"
               /\ {<<command.changes[i][1], command.changes[i][2]>> :
                      i \in 1..Len(command.changes)} = aux.cleared

\* A copy, then a paste at the origin of the copied rectangle.
RoundTrip == aux.op = "paste" /\ aux.from = "copy" /\ aux.origin

\* The composite is the active layer's own pixel: the active layer is
\* visible with opacity 1 and every other layer is hidden.
OnlyActiveLayerShows(st) ==
    \A i \in 1..Len(st.layers) :
        IF i = st.active_layer_index + 1
        THEN st.layers[i].visible /\ st.layers[i].opacity = RInt(1)
        ELSE ~st.layers[i].visible

\* C9 as claimed: for any canvas state (layers, visibilities, opacities,
\* active layer) CopySelection of a normalized selection inside the canvas,
\* then PasteSelection at the selection's origin, leave the composite colour
\* (EditorState::get_pixel) of every pixel what it was before the copy.
CopyPasteKeepsComposite == RoundTrip => CompositeOf(state) = aux.composite

\* C9 as amended: the same where the active layer is visible with opacity 1
\* and every other layer is hidden.
CopyPasteKeepsShownLayer ==
    (RoundTrip /\ OnlyActiveLayerShows(state)) =>
        CompositeOf(state) = aux.composite

\* A round trip on a canvas of two layers of which only the active one
\* shows, the copy holding a pixel that is not transparent.
ShownLayerRoundTrip ==
    /\ RoundTrip
    /\ OnlyActiveLayerShows(state)
    /\ Len(state.layers) = 2
    /\ state.clipboard # None
    /\ \E i \in 1..Len(state.clipboard.pixels) : state.clipboard.pixels[i] # 0

\* C10: the RGBA8 value save_image computes for every pixel is the RGBA8
\* encoding of EditorState::get_pixel of that pixel.
ExportMatchesComposite ==
    aux.op = "export" => aux.exported = EncodedComposite(state)

---------------------------------------------------------------------------
(* The layer list: LayerAdded, LayerDeleted, LayerMoved and LayerSelected   *)
(* with index arguments in and out of range, CanvasResized, CanvasCleared,  *)
(* FileNew, and FileLoaded with buffers of several lengths (the raw data    *)
(* File > Open sends) or with what load_image reads from the path.          *)
(* aux: op (the last message), before (the state a LayerDeleted found,      *)
(* None after other messages), index (the argument of that LayerDeleted),   *)
(* imported (a FileLoaded added a layer since the last FileNew).            *)

\* The layer list is kept to at most MaxLayers layers.
MaxLayers == 2

\* The indices the layer messages carry: every valid one and one past them.
LayerIndices == 0..MaxLayers

\* The names the "+ Add Layer" button gives: "Layer {len + 1}".
LayerNames ==
    <<"Layer 1", "Layer 2", "Layer 3", "Layer 4", "Layer 5", "Layer 6">>

\* The buffer lengths of FileLoaded: less than a pixel, a pixel and a half,
\* as many pixels as the first canvas has, and more.
DataLens == {1, 6, 4 * CanvasW * CanvasH, 4 * (CanvasW + 1) * (CanvasH + 1)}

\* RGBA8 data of n bytes: opaque black pixels.
OpaqueData(n) == [i \in 1..n |-> IF i % 4 = 0 THEN 255 ELSE 0]

\* What load_image returns for the files offered: an error, or an image one
\* pixel wide and two high.
Files == {None, Some([width |-> 1, height |-> 2, pixels |-> OpaqueData(8)])}

LayersInit ==
    /\ state = EditorStateNew(CanvasW, CanvasH)
    /\ locals = None
    /\ aux = [op |-> "new", before |-> None, index |-> 0, imported |-> FALSE]

\* A message other than LayerDeleted, FileLoaded and FileNew was handled.
LayersMessage(st) ==
    /\ state' = st
    /\ UNCHANGED locals
    /\ aux' = [aux EXCEPT !.op = "message", !.before = None, !.index = 0]

LayersAddedStep ==
    /\ Len(state.layers) < MaxLayers
    /\ LayersMessage(LayerAdded(state, LayerNames[Len(state.layers) + 1]))

LayersDeletedStep ==
    \E index \in LayerIndices :
        /\ state' = LayerDeleted(state, index)
        /\ UNCHANGED locals
        /\ aux' = [aux EXCEPT !.op = "delete", !.before = state,
                              !.index = index]

LayersMovedStep ==
    \E from \in LayerIndices, to \in LayerIndices :
        LayersMessage(LayerMoved(state, from, to))

LayersSelectedStep ==
    \E index \in LayerIndices : LayersMessage(LayerSelected(state, index))

\* The width field of the canvas panel: CanvasResized with the height kept.
LayersResizedStep ==
    \E width \in {0, CanvasW} :
        LayersMessage(CanvasResized(state, width, state.canvas_height))

LayersClearedStep == LayersMessage(CanvasCleared(state))

\* One image is opened per document.
LayersOpenedStep ==
    /\ ~aux.imported
    /\ Len(state.layers) < MaxLayers
    /\ \/ \E n \in DataLens :
              state' = FileLoaded(state, OpaqueData(n), None)
       \/ \E file \in Files : state' = FileLoaded(state, <<>>, file)
    /\ UNCHANGED locals
    /\ aux' = [aux EXCEPT !.op = "message", !.before = None, !.index = 0,
                          !.imported = @ \/ state' # state]

LayersNewStep ==
    /\ state' = FileNew(state)
    /\ UNCHANGED locals
    /\ aux' = [op |-> "new", before |-> None, index |-> 0,
               imported |-> FALSE]

LayersNext ==
    \/ LayersAddedStep
    \/ LayersDeletedStep
    \/ LayersMovedStep
    \/ LayersSelectedStep
    \/ LayersResizedStep
    \/ LayersClearedStep
    \/ LayersOpenedStep
    \/ LayersNewStep

SpecLayers == LayersInit /\ [][LayersNext]_vars

\* C11: in every reachable state every layer's buffer holds width * height
\* pixels of four bytes.
LayerBuffersSized ==
    \A i \in 1..Len(state.layers) :
        Len(state.layers[i].pixels)
            = state.layers[i].width * state.layers[i].height * 4

\* C12: in every reachable state every layer has the canvas's width and
\* height.
LayersShareCanvasSize ==
    \A i \in 1..Len(state.layers) :
        /\ state.layers[i].width = state.canvas_width
        /\ state.layers[i].height = state.canvas_height

\* Both hold as long as no image was imported.
SizedUnlessImported ==
    ~aux.imported => LayerBuffersSized /\ LayersShareCanvasSize

\* C13: in every reachable state the active index names a layer.
ActiveLayerInRange == state.active_layer_index < Len(state.layers)

\* The top layer was active and was deleted: the index moved down with it.
ActiveIndexClamped ==
    /\ aux.op = "delete"
    /\ Len(aux.before.layers) = MaxLayers
    /\ aux.before.active_layer_index = Len(aux.before.layers) - 1
    /\ Len(state.layers) = Len(aux.before.layers) - 1
    /\ state.active_layer_index = Len(state.layers) - 1

---------------------------------------------------------------------------
(* Mirrored strokes.  A run sets the editor up, each message at most once   *)
(* and in this order: CanvasResized, FileLoaded of an image of one pixel    *)
(* (which becomes the active layer), the two mirror toggles, BrushSize-     *)
(* Changed, PrimaryColorChanged, ToolSelected(Eraser); then a stroke:       *)
(* DrawingStarted and at most one PixelDrawn.                               *)
(* aux: op, phase (1 resized, 2 opened, 3 and 4 mirror toggled, 5 brush,    *)
(* 6 colour, 7 tool, 8 pressed, 9 dragged), before (the state the last      *)
(* DrawingStarted or PixelDrawn found), x, y (its arguments).               *)

MirrorInit ==
    /\ state = EditorStateNew(CanvasW, CanvasH)
    /\ locals = None
    /\ aux = [op |-> "new", phase |-> 0, before |-> None, x |-> 0, y |-> 0]

\* A message of the set-up was handled.
MirrorSetUp(st, to) ==
    /\ aux.phase < to
    /\ state' = st
    /\ UNCHANGED locals
    /\ aux' = [aux EXCEPT !.op = "setup", !.phase = to]

\* The canvas gets an even or an odd width, and height.
MirrorResizedStep ==
    \E width \in {CanvasW, CanvasW + 1}, height \in {CanvasH, CanvasH + 1} :
        MirrorSetUp(CanvasResized(state, width, height), 1)

MirrorOpenedStep == MirrorSetUp(FileLoaded(state, OpaqueData(4), None), 2)

MirrorHToggledStep == MirrorSetUp(MirrorHorizontalToggled(state), 3)

MirrorVToggledStep == MirrorSetUp(MirrorVerticalToggled(state), 4)

MirrorBrushStep ==
    \E size \in BrushSizes \ {state.brush_size} :
        MirrorSetUp(BrushSizeChanged(state, size), 5)

MirrorColorStep ==
    \E color \in {Red, Soft} : MirrorSetUp(PrimaryColorChanged(state, color), 6)

MirrorToolStep == MirrorSetUp(ToolSelected(state, "Eraser"), 7)

\* The button goes down on a pixel of the canvas or just right of it.
MirrorPressedStep ==
    \E x \in 0..state.canvas_width, y \in 0..(state.canvas_height - 1) :
        /\ aux.phase < 8
        /\ state' = DrawingStarted(state, x, y)
        /\ UNCHANGED locals
        /\ aux' = [op |-> "stamp", phase |-> 8, before |-> state,
                   x |-> x, y |-> y]

MirrorDraggedStep ==
    \E x \in 0..(state.canvas_width - 1), y \in 0..(state.canvas_height - 1) :
        /\ aux.phase = 8
        /\ state' = PixelDrawn(state, x, y)
        /\ UNCHANGED locals
        /\ aux' = [op |-> "stamp", phase |-> 9, before |-> state,
                   x |-> x, y |-> y]

MirrorNext ==
    \/ MirrorResizedStep
    \/ MirrorOpenedStep
    \/ MirrorHToggledStep
    \/ MirrorVToggledStep
    \/ MirrorBrushStep
    \/ MirrorColorStep
    \/ MirrorToolStep
    \/ MirrorPressedStep
    \/ MirrorDraggedStep

SpecMirror == MirrorInit /\ [][MirrorNext]_vars

\* The positions the claim names for a stamp at (x, y) with brush size 1.
MirrorTargets(st, x, y) ==
    LET xs == IF st.mirror_horizontal THEN {x, st.canvas_width - 1 - x}
              ELSE {x}
        ys == IF st.mirror_vertical THEN {y, st.canvas_height - 1 - y}
              ELSE {y}
    IN  xs \X ys

\* The last stamp was apply_pencil with brush size 1 on a pixel of the
\* canvas, with mirror_horizontal on.
MirroredPencilStamp ==
    /\ aux.op = "stamp"
    /\ aux.before.current_tool = "Pencil"
    /\ aux.before.brush_size = 1
    /\ aux.before.mirror_horizontal
    /\ aux.x < aux.before.canvas_width
    /\ aux.y < aux.before.canvas_height
    /\ aux.before.last_pixel # Some(<<aux.x, aux.y>>)

\* Every target holds primary_color (as RGBA8), every other byte of every
\* layer is what it was.
StampedExactlyTargets ==
    LET b == aux.before
        k == b.active_layer_index + 1
        old == b.layers[k]
        new == state.layers[k]
        targets == MirrorTargets(b, aux.x, aux.y)
        rgba == into_rgba8(b.primary_color)
        at(p) == (p[2] * old.width + p[1]) * 4
    IN  /\ \A p \in targets :
              LayerGetPixel(new, p[1], p[2]) = rgba8_to_color(rgba)
        /\ \A i \in 1..Len(state.layers) :
              i # k => state.layers[i] = b.layers[i]
        /\ new = [old EXCEPT !.pixels =
                     [j \in 1..Len(old.pixels) |->
                         IF \E p \in targets : j > at(p) /\ j <= at(p) + 4
                         THEN rgba[((j - 1) % 4) + 1]
                         ELSE old.pixels[j]]]

\* C15: with mirror_horizontal on and brush size 1, apply_pencil at a pixel
\* (x, y) of the canvas writes primary_color to the active layer's pixels
\* (x, y) and (canvas_width - 1 - x, y), with mirror_vertical on too to the
\* up to four pixels {x, canvas_width - 1 - x} x {y, canvas_height - 1 - y},
\* and to no other pixel.
PencilStampsMirrors == MirroredPencilStamp => StampedExactlyTargets

\* The same where the active layer has the size of the canvas.
PencilStampsMirrorsOnCanvasSizedLayer ==
    (/\ MirroredPencilStamp
     /\ active_layer(aux.before).width = aux.before.canvas_width
     /\ active_layer(aux.before).height = aux.before.canvas_height)
        => StampedExactlyTargets

\* The coordinates a command lists.
CommandPositions(command) ==
    IF command.type = "PixelChange" THEN <<<<command.x, command.y>>>>
    ELSE [i \in 1..Len(command.changes) |->
             <<command.changes[i][1], command.changes[i][2]>>]

\* (x, y) is its own image under every mirror that is on.
OnAxis(st, x, y) ==
    /\ st.mirror_horizontal \/ st.mirror_vertical
    /\ st.mirror_horizontal => st.canvas_width - 1 - x = x
    /\ st.mirror_vertical => st.canvas_height - 1 - y = y

\* C16: every command a pencil or eraser stroke records lists each
\* coordinate at most once, and a stamp of brush size 1 on the axis of
\* symmetry records one PixelChange, of that pixel.
StampListsPixelOnce ==
    /\ \A n \in 1..Len(state.history.commands) :
          LET ps == CommandPositions(state.history.commands[n])
          IN  \A i \in 1..Len(ps), j \in 1..Len(ps) : ps[i] = ps[j] => i = j
    /\ (/\ aux.op = "stamp"
        /\ state # aux.before
        /\ aux.before.brush_size = 1
        /\ aux.x < aux.before.canvas_width
        /\ OnAxis(aux.before, aux.x, aux.y)) =>
          LET cs == state.history.commands
          IN  /\ Len(cs) = Len(aux.before.history.commands) + 1
              /\ cs[Len(cs)].type = "PixelChange"
              /\ cs[Len(cs)].x = aux.x
              /\ cs[Len(cs)].y = aux.y

\* A stroke of brush size 1 on a canvas of odd width, mirrored horizontally:
\* pressed off the axis, which recorded two pixels, then dragged onto the
\* axis, which recorded one.
AxisStampSeen ==
    /\ aux.op = "stamp"
    /\ aux.phase = 9
    /\ aux.before.brush_size = 1
    /\ aux.before.mirror_horizontal
    /\ ~aux.before.mirror_vertical
    /\ aux.before.canvas_width - 1 - aux.x = aux.x
    /\ Len(state.history.commands) = 2
    /\ state.history.commands[1].type = "MultiPixelChange"
    /\ state.history.commands[2].type = "PixelChange"

---------------------------------------------------------------------------
(* Selection drags: SelectionStarted (or DrawingStarted with the Selection  *)
(* tool), SelectionUpdated and SelectionEnded, with ToolSelected and       *)
(* SelectionCleared in between.                                             *)
(* aux: op, open (a drag was started and not yet ended), start and last     *)
(* (where the drag started and where its last update was; None when no      *)
(* drag was started since the last SelectionCleared).                       *)

\* Coordinates run from 0 to MaxCoord.
MaxCoord == 5

\* The f32 coordinates of the selection messages: whole pixels, and a half.
Coords == {RInt(k) : k \in 0..MaxCoord} \cup {Rat(1, 2)}

SelectInit ==
    /\ state = EditorStateNew(CanvasW, CanvasH)
    /\ locals = None
    /\ aux = [op |-> "new", open |-> FALSE, start |-> None, last |-> None]

SelToolStep ==
    /\ state.current_tool # "Selection"
    /\ state' = ToolSelected(state, "Selection")
    /\ UNCHANGED locals
    /\ aux' = [aux EXCEPT !.op = "tool"]

\* The button goes down with the Selection tool.
SelPressedStep ==
    \E x \in 0..MaxCoord, y \in 0..MaxCoord :
        /\ state.current_tool = "Selection"
        /\ state' = DrawingStarted(state, x, y)
        /\ UNCHANGED locals
        /\ aux' = [op |-> "started", open |-> TRUE,
                   start |-> <<RInt(x), RInt(y)>>,
                   last |-> <<RInt(x), RInt(y)>>]

\* SelectionStarted as Ctrl+A sends it, at (0, 0), or at half a pixel.
SelStartedStep ==
    \E x \in {RInt(0), Rat(1, 2)}, y \in {RInt(0), Rat(1, 2)} :
        /\ state' = SelectionStarted(state, x, y)
        /\ UNCHANGED locals
        /\ aux' = [op |-> "started", open |-> TRUE, start |-> <<x, y>>,
                   last |-> <<x, y>>]

SelUpdatedStep ==
    \E x \in Coords, y \in Coords :
        /\ state' = SelectionUpdated(state, x, y)
        /\ UNCHANGED locals
        /\ aux' = [aux EXCEPT !.op = "updated",
                              !.last = IF aux.open THEN <<x, y>> ELSE @]

SelEndedStep ==
    /\ state' = SelectionEnded(state)
    /\ UNCHANGED locals
    /\ aux' = [aux EXCEPT !.op = "ended", !.open = FALSE]

SelClearedStep ==
    /\ state' = SelectionCleared(state)
    /\ UNCHANGED locals
    /\ aux' = [op |-> "cleared", open |-> FALSE, start |-> None, last |-> None]

SelectNext ==
    \/ SelToolStep
    \/ SelPressedStep
    \/ SelStartedStep
    \/ SelUpdatedStep
    \/ SelEndedStep
    \/ SelClearedStep

SpecSelect == SelectInit /\ [][SelectNext]_vars

\* C17: after SelectionEnded the selection of a drag from (sx, sy) with its
\* last update at (cx, cy) is the rectangle at (min(sx, cx), min(sy, cy)) of
\* width |cx - sx| and height |cy - sy|, neither negative.
DragNormalized ==
    (aux.op = "ended" /\ aux.start # None) =>
        LET sx == aux.start[1]
            sy == aux.start[2]
            cx == aux.last[1]
            cy == aux.last[2]
            dx == RSub(cx, sx)
            dy == RSub(cy, sy)
        IN  /\ state.selection =
                  Rectangle(RMin(sx, cx), RMin(sy, cy),
                            <<Abs(dx[1]), dx[2]>>, <<Abs(dy[1]), dy[2]>>)
            /\ RLe(RInt(0), state.selection.width)
            /\ RLe(RInt(0), state.selection.height)

\* The drag from (5, 5) to (2, 2) ended: origin (2, 2), width 3, height 3.
DragUpLeftSeen ==
    /\ aux.op = "ended"
    /\ aux.start # None
    /\ aux.start = <<RInt(5), RInt(5)>>
    /\ aux.last = <<RInt(2), RInt(2)>>
    /\ state.selection = Rectangle(RInt(2), RInt(2), RInt(3), RInt(3))

---------------------------------------------------------------------------
(* Pasting.  A run draws a pixel, selects a rectangle from (0, 0) (start,   *)
(* one update, release), copies it, may then add a layer or open an image   *)
(* of one pixel (either becomes the active layer), and pastes at a point    *)
(* on the canvas or just off it.                                            *)
(* aux: op, phase (1 drawn, 2 selection started, 3 updated, 4 released,     *)
(* 5 copied, 6 layer added or image opened, 7 pasted), before (the state    *)
(* PasteSelection found), x, y (its arguments).                             *)

PasteInit ==
    /\ state = EditorStateNew(CanvasW, CanvasH)
    /\ locals = None
    /\ aux = [op |-> "new", phase |-> 0, before |-> None, x |-> 0, y |-> 0]

\* The message that takes a run from phase `from` to the next.
PasteSetUp(st, from) ==
    /\ aux.phase = from
    /\ state' = st
    /\ UNCHANGED locals
    /\ aux' = [aux EXCEPT !.op = "setup", !.phase = from + 1]

PasteDrawnStep ==
    \E x \in Xs, y \in Ys : PasteSetUp(DrawingStarted(state, x, y), 0)

PasteStartedStep == PasteSetUp(SelectionStarted(state, RInt(0), RInt(0)), 1)

PasteUpdatedStep ==
    \E x \in 1..CanvasW, y \in 1..CanvasH :
        PasteSetUp(SelectionUpdated(state, RInt(x), RInt(y)), 2)

PasteEndedStep == PasteSetUp(SelectionEnded(state), 3)

PasteCopiedStep == PasteSetUp(CopySelection(state), 4)

PasteLayerAddedStep == PasteSetUp(LayerAdded(state, "Layer 2"), 5)

PasteOpenedStep == PasteSetUp(FileLoaded(state, OpaqueData(4), None), 5)

PastePastedStep ==
    \E x \in 0..CanvasW, y \in 0..CanvasH :
        /\ aux.phase \in {5, 6}
        /\ state' = PasteSelection(state, x, y)
        /\ UNCHANGED locals
        /\ aux' = [op |-> "paste", phase |-> 7, before |-> state,
                   x |-> x, y |-> y]

PasteNext ==
    \/ PasteDrawnStep
    \/ PasteStartedStep
    \/ PasteUpdatedStep
    \/ PasteEndedStep
    \/ PasteCopiedStep
    \/ PasteLayerAddedStep
    \/ PasteOpenedStep
    \/ PastePastedStep

SpecPaste == PasteInit /\ [][PasteNext]_vars

\* The clipboard cells (i, j) that a paste at (x, y) puts on the canvas.
PasteCells(st, x, y) ==
    {c \in (0..(st.clipboard.width - 1)) \X (0..(st.clipboard.height - 1)) :
        x + c[1] < st.canvas_width /\ y + c[2] < st.canvas_height}

\* The paste wrote the clipboard's pixel of every cell to the active layer
\* and nothing else, and recorded one MultiPixelChange listing exactly the
\* pixels of the cells, or nothing when there is no cell.
PastedExactlyCells ==
    LET b == aux.before
        k == b.active_layer_index + 1
        old == b.layers[k]
        new == state.layers[k]
        clip == b.clipboard
        cells == PasteCells(b, aux.x, aux.y)
        from(c) == (c[2] * clip.width + c[1]) * 4
        at(c) == ((aux.y + c[2]) * old.width + aux.x + c[1]) * 4
        cs == state.history.commands
    IN  /\ \A c \in cells :
              LayerGetPixel(new, aux.x + c[1], aux.y + c[2])
                  = rgba8_to_color(SubSeq(clip.pixels, from(c) + 1, from(c) + 4))
        /\ \A i \in 1..Len(state.layers) :
              i # k => state.layers[i] = b.layers[i]
        /\ new = [old EXCEPT !.pixels =
                     [n \in 1..Len(old.pixels) |->
                         IF \E c \in cells : n > at(c) /\ n <= at(c) + 4
                         THEN LET c == CHOOSE c \in cells :
                                           n > at(c) /\ n <= at(c) + 4
                              IN  clip.pixels[from(c) + n - at(c)]
                         ELSE old.pixels[n]]]
        /\ IF cells = {} THEN state.history = b.history
           ELSE /\ cs = Append(b.history.commands, cs[Len(cs)])
                /\ state.history.current_index = Len(cs)
                /\ cs[Len(cs)].type = "MultiPixelChange"
                /\ cs[Len(cs)].layer_index = b.active_layer_index
                /\ Len(cs[Len(cs)].changes) = Cardinality(cells)
                /\ {<<ch[1], ch[2]>> : ch \in
                        {cs[Len(cs)].changes[n] :
                            n \in 1..Len(cs[Len(cs)].changes)}}
                       = {<<aux.x + c[1], aux.y + c[2]>> : c \in cells}

\* C18: PasteSelection at (x, y) with a clipboard of w x h pixels writes
\* clipboard pixel (i, j) to pixel (x + i, y + j) of the active layer for
\* exactly the (i, j) with x + i < canvas_width and y + j < canvas_height,
\* changes no other pixel of any layer, and pushes one MultiPixelChange
\* listing exactly the pixels written, or nothing when none is written.
PasteWritesClipped == aux.op = "paste" => PastedExactlyCells

\* The same where the active layer has the size of the canvas.
PasteWritesClippedOnCanvasSizedLayer ==
    (/\ aux.op = "paste"
     /\ active_layer(aux.before).width = aux.before.canvas_width
     /\ active_layer(aux.before).height = aux.before.canvas_height)
        => PastedExactlyCells

---------------------------------------------------------------------------
(* The used colours.  A run starts from a new editor in which a number of   *)
(* colours, each far from the others and from black and white, have been   *)
(* registered, and registers at most MaxRegs more: the next far colour, a   *)
(* colour one step of RGBA8 away from the last one, a colour one step away  *)
(* from black, or a colour of alpha 2/255.  No run registers more than      *)
(* Registered colours.                                                      *)
(* aux: op, regs (the colours registered so far, in order), free (how many  *)
(* of them were registered freely).                                         *)

\* The colours registered freely at the end of a run.
MaxRegs == 2

\* The number of colours the claim registers.
Registered == UsedColorsLimit + 8

\* The k-th far colour: reds three steps of RGBA8 apart, 3/255 > 0.01.
Spaced(k) == MkColor(Rat(3 * k, 255), RInt(0), RInt(0), RInt(1))

\* The colour one step of RGBA8 redder than c: distinct, and within 0.01.
Redder(c) == [c EXCEPT !.r = RAdd(c.r, Rat(1, 255))]

\* A colour of alpha 2/255 < 0.01.
Faint == MkColor(RInt(0), RInt(1), RInt(0), Rat(2, 255))

\* The state and the colours registered after Spaced(n + 1 .. m).
RECURSIVE RegisterSpaced(_, _, _)
RegisterSpaced(r, n, m) ==
    IF n >= m THEN r
    ELSE IF m = n + 1
    THEN [state |-> add_used_color(r.state, Spaced(m)),
          regs |-> Append(r.regs, Spaced(m))]
    ELSE LET half == (n + m) \div 2
             left == RegisterSpaced(r, n, half)
         IN  IF Len(left.state.used_colors) > 0
             THEN RegisterSpaced(left, half, m) ELSE left

ColorsInit ==
    \E k \in 0..(Registered - MaxRegs) :
        LET r == RegisterSpaced([state |-> EditorStateNew(CanvasW, CanvasH),
                                 regs |-> <<>>], 0, k)
        IN  /\ state = r.state
            /\ locals = None
            /\ aux = [op |-> "new", regs |-> r.regs, free |-> 0]

\* The colours offered to the next registration.
NextColors ==
    LET n == Len(aux.regs)
    IN  {Spaced(n + 1), Redder(BLACK), Faint}
            \cup (IF n > 0 THEN {Redder(aux.regs[n])} ELSE {})

RegisterStep ==
    \E color \in NextColors :
        /\ aux.free < MaxRegs
        /\ state' = add_used_color(state, color)
        /\ UNCHANGED locals
        /\ aux' = [op |-> "register", regs |-> Append(aux.regs, color),
                   free |-> aux.free + 1]

ColorsNext == RegisterStep

SpecColors == ColorsInit /\ [][ColorsNext]_vars

\* All four channels within 0.01: what add_used_color takes for the same.
NearColor(c, d) ==
    Near(c.r, d.r) /\ Near(c.g, d.g) /\ Near(c.b, d.b) /\ Near(c.a, d.a)

\* The last UsedColorsLimit of the colours registered, in their order.
MostRecent ==
    SubSeq(aux.regs, Len(aux.regs) - UsedColorsLimit + 1, Len(aux.regs))

\* C19 as claimed: used_colors never holds more than 32 entries, and after
\* 40 pairwise distinct colours of non-zero alpha were registered it holds
\* the 32 registered last, in their order.
KeepsLastDistinctColors ==
    /\ Len(state.used_colors) <= UsedColorsLimit
    /\ (/\ Len(aux.regs) = Registered
        /\ \A i \in 1..Registered : aux.regs[i].a # RInt(0)
        /\ \A i \in 1..Registered, j \in 1..Registered :
               aux.regs[i] = aux.regs[j] => i = j) =>
          state.used_colors = MostRecent

\* C19 as amended: the same for 40 colours of alpha at least 0.01 of which
\* none is within 0.01 on all four channels of another, of black or of
\* white.
KeepsLastFarColors ==
    /\ Len(state.used_colors) <= UsedColorsLimit
    /\ (/\ Len(aux.regs) = Registered
        /\ \A i \in 1..Registered :
               /\ RLe(Rat(1, 100), aux.regs[i].a)
               /\ ~NearColor(aux.regs[i], BLACK)
               /\ ~NearColor(aux.regs[i], WHITE)
        /\ \A i \in 1..Registered, j \in 1..Registered :
               NearColor(aux.regs[i], aux.regs[j]) => i = j) =>
          state.used_colors = MostRecent

\* 40 far colours were registered: the list holds the last 32, the first
\* eight are gone.
FortyFarColorsSeen ==
    /\ Len(aux.regs) = Registered
    /\ \A i \in 1..Registered, j \in 1..Registered :
           NearColor(aux.regs[i], aux.regs[j]) => i = j
    /\ state.used_colors = MostRecent
    /\ Len(state.used_colors) = UsedColorsLimit
    /\ \A i \in 1..Len(state.used_colors) : state.used_colors[i] # aux.regs[1]

-----------------------------------------------------------------------------
\* The composite of a canvas of one layer.  An image of one texel is opened
\* as a layer, a layer is deleted, layers are dimmed and hidden, and the
\* pencil is pressed once.

\* The texels of the opened image: red of alpha 0, red of alpha 128, blue.
LoadedTexels == {<<255, 0, 0, 0>>, <<255, 0, 0, 128>>, <<0, 0, 255, 255>>}

CompositeInit ==
    /\ state = EditorStateNew(CanvasW, CanvasH)
    /\ locals = None
    /\ aux = [op |-> "new", opened |-> FALSE, drawn |-> FALSE]

CompositeMessage(st) ==
    /\ state' = st
    /\ UNCHANGED locals
    /\ aux' = [aux EXCEPT !.op = "message"]

CompositeOpenedStep ==
    \E data \in LoadedTexels :
        /\ ~aux.opened
        /\ Len(state.layers) = 1
        /\ state' = FileLoaded(state, data, None)
        /\ UNCHANGED locals
        /\ aux' = [aux EXCEPT !.op = "open", !.opened = TRUE]

CompositeDeletedStep ==
    \E index \in 0..(Len(state.layers) - 1) :
        /\ Len(state.layers) > 1
        /\ CompositeMessage(LayerDeleted(state, index))

CompositeColorStep ==
    \E color \in Palette \ {state.primary_color} :
        CompositeMessage(PrimaryColorChanged(state, color))

CompositeOpacityStep ==
    \E index \in 0..(Len(state.layers) - 1) :
        \E opacity \in Opacities \ {state.layers[index + 1].opacity} :
            CompositeMessage(LayerOpacityChanged(state, index, opacity))

CompositeVisibilityStep ==
    \E index \in 0..(Len(state.layers) - 1) :
        CompositeMessage(LayerVisibilityToggled(state, index))

CompositePressedStep ==
    \E x \in Xs, y \in Ys :
        /\ ~aux.drawn
        /\ state' = DrawingStarted(state, x, y)
        /\ UNCHANGED locals
        /\ aux' = [aux EXCEPT !.op = "press", !.drawn = TRUE]

CompositeNext ==
    \/ CompositeOpenedStep
    \/ CompositeDeletedStep
    \/ CompositeColorStep
    \/ CompositeOpacityStep
    \/ CompositeVisibilityStep
    \/ CompositePressedStep

SpecComposite == CompositeInit /\ [][CompositeNext]_vars

\* The canvas has one layer, visible and of opacity 1.
SinglePlainLayer ==
    /\ Len(state.layers) = 1
    /\ state.layers[1].visible
    /\ state.layers[1].opacity = RInt(1)

\* C20: with exactly one layer, visible and of opacity 1.0, get_pixel of the
\* canvas returns at every in-bounds (x, y) exactly what get_pixel of that
\* layer returns, whatever RGBA8 value is stored there.
SingleLayerCompositeIsLayer ==
    SinglePlainLayer =>
        \A x \in 0..(state.canvas_width - 1),
           y \in 0..(state.canvas_height - 1) :
            get_pixel(state, x, y) = LayerGetPixel(state.layers[1], x, y)

\* The same holds at the pixels whose layer colour has a non-zero alpha or
\* is transparent black: only a coloured pixel of alpha 0 comes out changed.
SingleLayerCompositeIsLayerUnlessClear ==
    SinglePlainLayer =>
        \A x \in 0..(state.canvas_width - 1),
           y \in 0..(state.canvas_height - 1) :
            LET pixel == LayerGetPixel(state.layers[1], x, y)
            IN  (pixel.a # RInt(0) \/ pixel = TRANSPARENT) =>
                    get_pixel(state, x, y) = pixel

-----------------------------------------------------------------------------
\* Blue of opacity 0.5 over red.

\* Two visible layers: the lower one opaque and red at (x, y), the upper one
\* of opacity 0.5 and blue at (x, y).
HalfBlueOverRed(x, y) ==
    /\ Len(state.layers) = 2
    /\ state.layers[1].visible /\ state.layers[2].visible
    /\ state.layers[1].opacity = RInt(1)
    /\ state.layers[2].opacity = Rat(1, 2)
    /\ InLayer(state.layers[1], <<x, y>>)
    /\ InLayer(state.layers[2], <<x, y>>)
    /\ PixelBytes(state.layers[1], x, y) = <<255, 0, 0, 255>>
    /\ PixelBytes(state.layers[2], x, y) = <<0, 0, 255, 255>>

\* C21: for two visible layers, the bottom pixel (255,0,0,255) at opacity 1.0
\* and the top pixel (0,0,255,255) at opacity 0.5, get_pixel yields the colour
\* of out.a = ea + b.a*(1-ea), out.rgb = (top.rgb*ea + b.rgb*b.a*(1-ea))/out.a
\* with ea = top.a*opacity, whose RGBA8 encoding is within 1 unit per channel
\* of (127,0,127,255).
HalfBlueOverRedIsPurple ==
    \A x \in Xs, y \in Ys :
        HalfBlueOverRed(x, y) =>
            LET out == get_pixel(state, x, y)
                rgba == into_rgba8(out)
            IN  /\ out = MkColor(Rat(1, 2), RInt(0), Rat(1, 2), RInt(1))
                /\ Abs(rgba[1] - 127) <= 1
                /\ Abs(rgba[2] - 0) <= 1
                /\ Abs(rgba[3] - 127) <= 1
                /\ Abs(rgba[4] - 255) <= 1

\* The two layers are there, and the composite encodes as (128,0,128,255).
HalfBlueOverRedSeen ==
    /\ HalfBlueOverRed(0, 0)
    /\ into_rgba8(get_pixel(state, 0, 0)) = <<128, 0, 128, 255>>

-----------------------------------------------------------------------------
\* u32 overflow in PasteSelection and CanvasResized.  A pixel is drawn, a
\* rectangle is selected and copied, and then the clipboard is pasted and the
\* canvas resized, in either order, with coordinates and sizes from all of
\* u32.  aux.checked tells whether the build checks for overflow (it panics
\* then) or wraps; aux.panicked and aux.overflowed record what happened,
\* aux.wide that an argument of 2^16 or more was passed.

\* PasteSelection coordinates: small ones, and the two largest of u32.
WideCoords ==
    {<<0, 0>>, <<0, 1>>, ToU32(CanvasW), <<U32Half - 1, U32Half - 2>>, U32Max}

\* CanvasResized sizes: small ones, and two whose byte count is 2^32, 2^33.
WideSizes ==
    {<<CanvasW, CanvasH>>, <<1, 1>>, <<0, 1>>,
     <<U32Half, U32Half \div 4>>, <<U32Half, U32Half \div 2>>}

WideInit ==
    \E checked \in BOOLEAN :
        /\ state = EditorStateNew(CanvasW, CanvasH)
        /\ locals = None
        /\ aux = [op |-> "new", phase |-> 0, before |-> None,
                  checked |-> checked, panicked |-> FALSE,
                  overflowed |-> FALSE, wide |-> FALSE]

\* The message that takes a run from phase `from` to the next.
WideSetUp(st, from) ==
    /\ aux.phase = from
    /\ state' = st
    /\ UNCHANGED locals
    /\ aux' = [aux EXCEPT !.op = "setup", !.phase = from + 1]

WideDrawnStep ==
    \E x \in Xs, y \in Ys : WideSetUp(DrawingStarted(state, x, y), 0)

WideStartedStep == WideSetUp(SelectionStarted(state, RInt(0), RInt(0)), 1)

WideUpdatedStep ==
    \E x \in 1..CanvasW, y \in 1..CanvasH :
        WideSetUp(SelectionUpdated(state, RInt(x), RInt(y)), 2)

WideEndedStep == WideSetUp(SelectionEnded(state), 3)

WideCopiedStep == WideSetUp(CopySelection(state), 4)

\* A message whose arithmetic may overflow: a build that checks panics in
\* the handler, one that does not goes on with the wrapped values.
WideMessage(op, st, overflow, wide) ==
    /\ aux.phase \in {5, 6}
    /\ ~aux.panicked
    /\ UNCHANGED locals
    /\ IF overflow /\ aux.checked
       THEN /\ state' = state
            /\ aux' = [aux EXCEPT !.op = op, !.phase = @ + 1, !.before = state,
                                  !.panicked = TRUE, !.overflowed = TRUE,
                                  !.wide = @ \/ wide]
       ELSE /\ state' = st
            /\ aux' = [aux EXCEPT !.op = op, !.phase = @ + 1, !.before = state,
                                  !.overflowed = @ \/ overflow,
                                  !.wide = @ \/ wide]

\* paste_pixels computes start_x + x and start_y + y for every cell of the
\* clipboard, before it tests them against the canvas.
PasteOverflows(st, x, y) ==
    /\ st.clipboard # None
    /\ HasActiveLayer(st)
    /\ st.clipboard.width > 0 /\ st.clipboard.height > 0
    /\ \/ U32Add(x, ToU32(st.clipboard.width - 1)).overflow
       \/ U32Add(y, ToU32(st.clipboard.height - 1)).overflow

WidePastedStep ==
    \E x \in WideCoords, y \in WideCoords :
        /\ aux.op # "paste"
        /\ WideMessage("paste", PasteSelectionAt(state, x, y),
                       PasteOverflows(state, x, y),
                       x[1] > 0 \/ y[1] > 0)

\* CanvasResized computes width * height * 4 for every layer.
ResizeOverflows(st, width, height) ==
    Len(st.layers) > 0 /\ BufferSize(width, height).overflow

WideResizedStep ==
    \E size \in WideSizes :
        /\ aux.op # "resize"
        /\ WideMessage("resize", CanvasResized(state, size[1], size[2]),
                       ResizeOverflows(state, size[1], size[2]),
                       size[1] >= U32Half \/ size[2] >= U32Half)

WideNext ==
    \/ WideDrawnStep
    \/ WideStartedStep
    \/ WideUpdatedStep
    \/ WideEndedStep
    \/ WideCopiedStep
    \/ WidePastedStep
    \/ WideResizedStep

SpecWide == WideInit /\ [][WideNext]_vars

\* C22: no operation panics or aborts: PasteSelection with any u32
\* coordinates and CanvasResized with any u32 dimensions complete without
\* u32 arithmetic overflow, as a no-op or a clipped write.
NoPanicNoOverflow ==
    /\ ~aux.panicked
    /\ ~aux.overflowed
    /\ (aux.op = "paste" /\ state # aux.before) =>
           \E p \in (0..CanvasW) \X (0..CanvasH) :
               state = PasteSelection(aux.before, p[1], p[2])

\* The state st is the state b resized to width x height: the new size,
\* every layer of that size and clear, and the layers otherwise as they were.
ResizedTo(b, st, width, height) ==
    /\ st.canvas_width = width
    /\ st.canvas_height = height
    /\ ~BufferSize(width, height).overflow
    /\ Len(st.layers) = Len(b.layers)
    /\ \A i \in 1..Len(st.layers) :
          /\ st.layers[i].width = width
          /\ st.layers[i].height = height
          /\ st.layers[i].pixels =
                 Zeros(FromU32(BufferSize(width, height).value))
          /\ st.layers[i].name = b.layers[i].name
          /\ st.layers[i].visible = b.layers[i].visible
          /\ st.layers[i].opacity = b.layers[i].opacity
    /\ st.active_layer_index = b.active_layer_index

\* C35: after CanvasResized { width, height } the canvas has the new size
\* and every layer has the new dimensions with all bytes 0: no previous
\* pixel content survives, while the number, order, names, visibility and
\* opacity of the layers and active_layer_index are unchanged.
ResizeClearsLayers ==
    aux.op = "resize" =>
        /\ ~aux.panicked
        /\ \E size \in WideSizes :
              ResizedTo(aux.before, state, size[1], size[2])

\* The same for the sizes whose byte count fits a u32.
ResizeClearsLayersUnlessWide ==
    (/\ aux.op = "resize"
     /\ ~aux.panicked
     /\ ~BufferSize(state.canvas_width, state.canvas_height).overflow) =>
        /\ \E size \in WideSizes :
              ResizedTo(aux.before, state, size[1], size[2])
        /\ ResizedTo(aux.before, state, state.canvas_width,
                     state.canvas_height)

\* With coordinates and sizes below 2^16 nothing overflows.
NoOverflowBelowHalfWord ==
    (aux.panicked \/ aux.overflowed) => aux.wide

-----------------------------------------------------------------------------
\* Layer messages with valid and invalid indices.  Of a message with an
\* invalid index aux keeps the kind (op), the indices (index and to: from
\* and to for LayerMoved) and the number of layers it found (len);
\* aux.changed tells whether the last message left a state other than the
\* one it found.

IndexInit ==
    /\ state = EditorStateNew(CanvasW, CanvasH)
    /\ locals = None
    /\ aux = [op |-> "new", len |-> 0, index |-> 0, to |-> 0,
              changed |-> FALSE]

IndexMessage(op, st, index, to) ==
    /\ state' = st
    /\ UNCHANGED locals
    /\ aux' = IF index >= Len(state.layers) \/ to >= Len(state.layers)
              THEN [op |-> op, len |-> Len(state.layers), index |-> index,
                    to |-> to, changed |-> st # state]
              ELSE [op |-> "valid", len |-> 0, index |-> 0, to |-> 0,
                    changed |-> st # state]

IndexAddedStep ==
    /\ Len(state.layers) < MaxLayers
    /\ IndexMessage("add", LayerAdded(state, LayerNames[Len(state.layers) + 1]),
                    0, 0)

IndexDeletedStep ==
    \E index \in LayerIndices :
        IndexMessage("delete", LayerDeleted(state, index), index, index)

IndexSelectedStep ==
    \E index \in LayerIndices :
        IndexMessage("select", LayerSelected(state, index), index, index)

IndexVisibilityStep ==
    \E index \in LayerIndices :
        IndexMessage("toggle", LayerVisibilityToggled(state, index),
                     index, index)

IndexOpacityStep ==
    \E index \in LayerIndices, opacity \in Opacities :
        IndexMessage("dim", LayerOpacityChanged(state, index, opacity),
                     index, index)

IndexMovedStep ==
    \E from \in LayerIndices, to \in LayerIndices :
        IndexMessage("move", LayerMoved(state, from, to), from, to)

IndexNext ==
    \/ IndexAddedStep
    \/ IndexDeletedStep
    \/ IndexSelectedStep
    \/ IndexVisibilityStep
    \/ IndexOpacityStep
    \/ IndexMovedStep

SpecIndex == IndexInit /\ [][IndexNext]_vars

\* The last message was one of the five that take a layer index, and an
\* index of it was not below the number of layers.
InvalidIndexHandled ==
    /\ aux.op \in {"delete", "select", "toggle", "dim", "move"}
    /\ (aux.index >= aux.len \/ aux.to >= aux.len)

\* C23: LayerDeleted, LayerSelected, LayerVisibilityToggled and
\* LayerOpacityChanged with an index >= layers.len(), and LayerMoved with
\* from or to >= layers.len(), leave the whole editor state unchanged.
InvalidIndexNoOp == InvalidIndexHandled => ~aux.changed

\* A move from a valid index to an invalid one, with the second layer
\* active, hidden and dimmed, changed nothing.
InvalidMoveSeen ==
    /\ aux.op = "move"
    /\ aux.len = 2 /\ Len(state.layers) = 2
    /\ aux.index = 1 /\ aux.to = 2
    /\ state.active_layer_index = 1
    /\ ~state.layers[2].visible
    /\ state.layers[2].opacity = Rat(1, 2)
    /\ ~aux.changed

-----------------------------------------------------------------------------
\* Presses and drags with the five tools, on the canvas and off it.  A run
\* sets the brush size, draws a pixel, releases, changes the colour and the
\* tool (each of these or not), presses, drags or changes the tool twice,
\* releases and drags again.  aux.op is the kind of the last message,
\* aux.before the state it found, aux.x and aux.y its position; aux.armed
\* tells whether the last DrawingStarted came with a tool other than
\* Selection and Eyedropper and no DrawingEnded followed.

ToolNames == {"Pencil", "Eraser", "Fill", "Selection", "Eyedropper"}

DrawInit ==
    /\ state = EditorStateNew(CanvasW, CanvasH)
    /\ locals = None
    /\ aux = [op |-> "new", phase |-> 0, before |-> None, x |-> 0, y |-> 0,
              armed |-> FALSE]

\* A message of the set-up was handled.
DrawSetUp(st, to) ==
    /\ aux.phase < to
    /\ state' = st
    /\ UNCHANGED locals
    /\ aux' = [aux EXCEPT !.op = "set", !.phase = to, !.before = None,
                          !.x = 0, !.y = 0]

DrawBrushStep ==
    \E size \in BrushSizes \ {state.brush_size} :
        DrawSetUp(BrushSizeChanged(state, size), 1)

\* The pencil draws the last pixel of the top row.
DrawInkedStep ==
    /\ aux.phase < 2
    /\ state' = DrawingStarted(state, CanvasW - 1, 0)
    /\ UNCHANGED locals
    /\ aux' = [aux EXCEPT !.op = "ink", !.phase = 2, !.before = None,
                          !.x = 0, !.y = 0, !.armed = TRUE]

DrawColorStep == DrawSetUp(PrimaryColorChanged(state, Red), 4)

DrawToolStep ==
    \E tool \in ToolNames \ {state.current_tool} :
        DrawSetUp(ToolSelected(state, tool), 5)

\* The button goes down in the last column of the canvas or right of it, in
\* the top row or below the canvas.
DrawPressedStep ==
    \E x \in {CanvasW - 1, CanvasW}, y \in {0, CanvasH} :
        /\ aux.phase < 6
        /\ state' = DrawingStarted(state, x, y)
        /\ UNCHANGED locals
        /\ aux' = [aux EXCEPT !.op = "press", !.phase = 6, !.before = state,
                              !.x = x, !.y = y,
                              !.armed = state.current_tool
                                            \notin {"Selection", "Eyedropper"}]

\* The cursor is dragged to a pixel of the top row or right of it: before
\* the button is released, and once after.
DrawDraggedStep ==
    \E x \in (CanvasW - 2)..CanvasW :
        /\ aux.phase \in {6, 7, 9}
        /\ state' = PixelDrawn(state, x, 0)
        /\ UNCHANGED locals
        /\ aux' = [aux EXCEPT !.op = "drag", !.phase = @ + 1,
                              !.before = state, !.x = x, !.y = 0]

\* The tool is changed while the button is down.
DrawRetoolStep ==
    \E tool \in ToolNames \ {state.current_tool} :
        /\ aux.phase \in {6, 7}
        /\ aux.op # "retool"
        /\ state' = ToolSelected(state, tool)
        /\ UNCHANGED locals
        /\ aux' = [aux EXCEPT !.op = "retool", !.phase = @ + 1,
                              !.before = None, !.x = 0, !.y = 0]

\* The button is released: after the set-up pixel, and after the drags.
DrawEndedStep ==
    /\ aux.phase \in {2, 6, 7, 8}
    /\ state' = DrawingEnded(state)
    /\ UNCHANGED locals
    /\ aux' = [aux EXCEPT !.op = "end",
                          !.phase = IF aux.phase = 2 THEN 3 ELSE 9,
                          !.before = None, !.x = 0, !.y = 0, !.armed = FALSE]

DrawNext ==
    \/ DrawBrushStep
    \/ DrawInkedStep
    \/ DrawColorStep
    \/ DrawToolStep
    \/ DrawPressedStep
    \/ DrawDraggedStep
    \/ DrawRetoolStep
    \/ DrawEndedStep

SpecDraw == DrawInit /\ [][DrawNext]_vars

\* The last message called the tool st.current_tool names at (aux.x, aux.y).
ToolCalled ==
    \/ aux.op = "press" /\ aux.before.current_tool # "Selection"
    \/ /\ aux.op = "drag"
       /\ aux.before.is_drawing
       /\ aux.before.last_pixel # Some(<<aux.x, aux.y>>)
       /\ aux.before.current_tool \in {"Pencil", "Eraser"}

\* C24: apply_pencil, apply_eraser, apply_fill and apply_eyedropper called
\* with x >= canvas_width or y >= canvas_height leave layers, history,
\* primary_color and used_colors unchanged.
OffCanvasToolNoOp ==
    (/\ ToolCalled
     /\ (aux.x >= aux.before.canvas_width \/ aux.y >= aux.before.canvas_height)) =>
        /\ state.layers = aux.before.layers
        /\ state.history = aux.before.history
        /\ state.primary_color = aux.before.primary_color
        /\ state.used_colors = aux.before.used_colors

\* The fill tool was called right of a drawn pixel that is not of the
\* primary colour, and nothing changed.
OffCanvasFillSeen ==
    /\ aux.op = "press"
    /\ aux.before.current_tool = "Fill"
    /\ aux.x = aux.before.canvas_width /\ aux.y = 0
    /\ PixelBytes(state.layers[1], CanvasW - 1, 0) = <<0, 0, 0, 255>>
    /\ state.primary_color = Red
    /\ state.history.commands # <<>>
    /\ state.layers = aux.before.layers
    /\ state.history = aux.before.history

-----------------------------------------------------------------------------
\* Copy, cut and paste with and without something to copy or paste.  A run
\* draws a black pixel, adds a layer, draws a red pixel on it, dims and
\* hides a layer, drags a selection (each of these or not), then copies,
\* cuts or pastes, clears or restarts the selection, and copies, cuts or
\* pastes again.  aux.op is the kind of the last message and aux.before the
\* state it found.

\* Where a selection starts and where it is dragged to: left of the canvas,
\* on it, and right of and below it.
SelStarts == {-1, 0, 1, CanvasW}
SelEnds == {-1, 0, 1, CanvasW, CanvasW + 1}

CopyInit ==
    /\ state = EditorStateNew(CanvasW, CanvasH)
    /\ locals = None
    /\ aux = [op |-> "new", phase |-> 0, before |-> None]

\* A message of the set-up was handled.
CopySetUp(st, to) ==
    /\ aux.phase < to
    /\ state' = st
    /\ UNCHANGED locals
    /\ aux' = [op |-> "setup", phase |-> to, before |-> None]

CopyDrawnStep == CopySetUp(DrawingStarted(state, 0, 0), 1)

CopyLayerAddedStep == CopySetUp(LayerAdded(state, "Layer 2"), 2)

CopyColorStep == CopySetUp(PrimaryColorChanged(state, Red), 3)

CopyDrawnAgainStep ==
    \E x \in Xs : CopySetUp(DrawingStarted(state, x, 0), 4)

CopyOpacityStep ==
    \E index \in 0..(Len(state.layers) - 1) :
        CopySetUp(LayerOpacityChanged(state, index, Rat(1, 2)), 5)

CopyVisibilityStep ==
    \E index \in 0..(Len(state.layers) - 1) :
        CopySetUp(LayerVisibilityToggled(state, index), 6)

CopyStartedStep ==
    \E x \in SelStarts : CopySetUp(SelectionStarted(state, RInt(x), RInt(0)), 7)

CopyUpdatedStep ==
    \E x \in SelEnds, y \in {0, CanvasH} :
        CopySetUp(SelectionUpdated(state, RInt(x), RInt(y)), 8)

CopyEndedStep == CopySetUp(SelectionEnded(state), 9)

\* The selection is cleared, or started again, after the first copy, cut or
\* paste.
CopyClearedStep ==
    /\ aux.phase = 10
    /\ state' = SelectionCleared(state)
    /\ UNCHANGED locals
    /\ aux' = [op |-> "setup", phase |-> 11, before |-> None]

CopyRestartedStep ==
    \E x \in SelStarts :
        /\ aux.phase = 10
        /\ state' = SelectionStarted(state, RInt(x), RInt(0))
        /\ UNCHANGED locals
        /\ aux' = [op |-> "setup", phase |-> 11, before |-> None]

\* A CopySelection, CutSelection or PasteSelection: one before phase 10 and
\* one after.
CopyMessage(op, st) ==
    /\ aux.phase < 12
    /\ state' = st
    /\ UNCHANGED locals
    /\ aux' = [op |-> op, phase |-> IF aux.phase < 10 THEN 10 ELSE 12,
               before |-> state]

CopyCopiedStep == CopyMessage("copy", CopySelection(state))

CopyCutStep == CopyMessage("cut", CutSelection(state))

CopyPastedStep == CopyMessage("paste", PasteSelection(state, 0, 0))

CopyNext ==
    \/ CopyDrawnStep
    \/ CopyLayerAddedStep
    \/ CopyColorStep
    \/ CopyDrawnAgainStep
    \/ CopyOpacityStep
    \/ CopyVisibilityStep
    \/ CopyStartedStep
    \/ CopyUpdatedStep
    \/ CopyEndedStep
    \/ CopyClearedStep
    \/ CopyRestartedStep
    \/ CopyCopiedStep
    \/ CopyCutStep
    \/ CopyPastedStep

SpecCopy == CopyInit /\ [][CopyNext]_vars

\* The canvas pixels of a state's selection: those from the truncated origin
\* up to the truncated far corner, kept to the canvas.
SelectedCells(st) ==
    IF st.selection = None THEN {}
    ELSE {p \in (0..(st.canvas_width - 1)) \X (0..(st.canvas_height - 1)) :
            /\ AsI32(st.selection.x) <= p[1]
            /\ p[1] < AsI32(RAdd(st.selection.x, st.selection.width))
            /\ AsI32(st.selection.y) <= p[2]
            /\ p[2] < AsI32(RAdd(st.selection.y, st.selection.height))}

\* The least of a non-empty set of numbers.
Least(S) == CHOOSE n \in S : \A m \in S : n <= m

\* C25: CopySelection changes nothing but the clipboard, and the new
\* clipboard holds, row by row, the composited colour of every pixel of the
\* selection rectangle clamped to the canvas, with
\* width * height * 4 = pixels.len().
CopyOnlyFillsClipboard ==
    aux.op = "copy" =>
        LET cells == SelectedCells(aux.before)
            clip == state.clipboard
        IN  /\ state = [aux.before EXCEPT !.clipboard = clip]
            /\ cells # {} =>
                 LET left == Least({p[1] : p \in cells})
                     top == Least({p[2] : p \in cells})
                 IN  /\ clip # None
                     /\ clip.width * clip.height = Cardinality(cells)
                     /\ clip.width * clip.height * 4 = Len(clip.pixels)
                     /\ \A p \in cells :
                          LET index == ((p[2] - top) * clip.width
                                            + (p[1] - left)) * 4
                          IN  /\ p[1] - left < clip.width
                              /\ SubSeq(clip.pixels, index + 1, index + 4) =
                                   into_rgba8(get_pixel(aux.before, p[1], p[2]))

\* Two layers are shown and a rectangle two pixels wide was copied whose
\* composite is not what the active layer holds.
CompositeCopied ==
    /\ aux.op = "copy"
    /\ Len(state.layers) = 2
    /\ state.layers[1].visible /\ state.layers[2].visible
    /\ state.clipboard # None
    /\ state.clipboard.width = 2
    /\ aux.before.clipboard = None
    /\ \E p \in SelectedCells(aux.before) :
           get_pixel(state, p[1], p[2]) #
               LayerGetPixel(active_layer(state), p[1], p[2])

\* C26: PasteSelection with no clipboard, and CopySelection or CutSelection
\* with no selection or with a selection whose clamped rectangle is empty,
\* leave the whole state unchanged, a stored clipboard included.
NothingToCopyNoOp ==
    (\/ aux.op = "paste" /\ aux.before.clipboard = None
     \/ aux.op \in {"copy", "cut"} /\ SelectedCells(aux.before) = {}) =>
        state = aux.before

\* A cut found a clipboard and a selection of no area, and changed nothing.
ZeroAreaCutSeen ==
    /\ aux.op = "cut"
    /\ aux.before.clipboard # None
    /\ aux.before.selection # None
    /\ aux.before.selection.width = RInt(0)
    /\ aux.before.history.commands # <<>>
    /\ state = aux.before

-----------------------------------------------------------------------------
\* What a pencil stamp records.

\* The last message called apply_pencil at a pixel of the canvas.
PencilCalled ==
    /\ aux.op = "stamp"
    /\ aux.before.current_tool = "Pencil"
    /\ aux.x < aux.before.canvas_width
    /\ aux.y < aux.before.canvas_height
    /\ aux.before.last_pixel # Some(<<aux.x, aux.y>>)

\* The pixels of the canvas under a brush at (x, y).
BrushCells(st, x, y) ==
    LET radius == st.brush_size \div 2
    IN  {p \in (0..(st.canvas_width - 1)) \X (0..(st.canvas_height - 1)) :
            Abs(p[1] - x) <= radius /\ Abs(p[2] - y) <= radius}

\* The brush pixels and their mirror images.
StampCells(st, x, y) ==
    UNION {MirrorTargets(st, p[1], p[2]) : p \in BrushCells(st, x, y)}

\* C27: every apply_pencil call at a position of the canvas pushes exactly
\* one command onto the history: a PixelChange when the mirrored,
\* deduplicated stamp covers one position, otherwise a MultiPixelChange that
\* lists every stamped position with the colour it held before the stamp
\* and primary_color as the new colour.
PencilRecordsOneCommand ==
    PencilCalled =>
        LET b == aux.before
            cells == StampCells(b, aux.x, aux.y)
            cs == state.history.commands
            last == cs[Len(cs)]
            held(p) == LayerGetPixel(active_layer(b), p[1], p[2])
        IN  /\ Len(cs) = Len(b.history.commands) + 1
            /\ SubSeq(cs, 1, Len(cs) - 1) = b.history.commands
            /\ state.history.current_index = Len(cs)
            /\ last.layer_index = b.active_layer_index
            /\ IF Cardinality(cells) = 1
               THEN \E p \in cells :
                        last = PixelChange(b.active_layer_index, p[1], p[2],
                                           held(p), b.primary_color)
               ELSE /\ last.type = "MultiPixelChange"
                    /\ Len(last.changes) = Cardinality(cells)
                    /\ \A p \in cells :
                          \E i \in 1..Len(last.changes) :
                              last.changes[i] =
                                  <<p[1], p[2], held(p), b.primary_color>>

\* A pencil stamp recorded a MultiPixelChange of several pixels, one of
\* which held a colour before.
MultiStampSeen ==
    /\ PencilCalled
    /\ LET cs == state.history.commands
       IN  /\ cs # <<>>
           /\ cs[Len(cs)].type = "MultiPixelChange"
           /\ Len(cs[Len(cs)].changes) > 1
           /\ \E i \in 1..Len(cs[Len(cs)].changes) :
                  cs[Len(cs)].changes[i][3] # TRANSPARENT

-----------------------------------------------------------------------------
\* Drags: a held position, and what a drag may do.

\* C28: during a drag, a PixelDrawn whose coordinates equal last_pixel (the
\* position of DrawingStarted or of the previous PixelDrawn) changes neither
\* the layers nor the history.
HeldPixelNotRedrawn ==
    (aux.op = "drag" /\ aux.before.last_pixel = Some(<<aux.x, aux.y>>)) =>
        /\ state.layers = aux.before.layers
        /\ state.history = aux.before.history

\* The pencil was dragged to a pixel, which was recorded, and held there,
\* which was not.
HeldPixelSeen ==
    /\ aux.op = "drag"
    /\ aux.before.is_drawing
    /\ aux.before.current_tool = "Pencil"
    /\ aux.before.last_pixel = Some(<<aux.x, aux.y>>)
    /\ aux.x < CanvasW
    /\ Len(aux.before.history.commands) > 2
    /\ state = aux.before

\* C29: PixelDrawn changes layers or history only while is_drawing is true,
\* that is after a DrawingStarted with a tool other than Selection and
\* Eyedropper and before the next DrawingEnded; and whatever the tool, it
\* never fills, changes the selection or picks a colour.
DragOnlyDraws ==
    /\ state.is_drawing => aux.armed
    /\ aux.op = "drag" =>
          /\ ~aux.before.is_drawing => state = aux.before
          /\ state.selection = aux.before.selection
          /\ state.is_selecting = aux.before.is_selecting
          /\ state.primary_color = aux.before.primary_color
          /\ aux.before.current_tool \notin {"Pencil", "Eraser"} =>
                /\ state.layers = aux.before.layers
                /\ state.history = aux.before.history

\* The fill tool was dragged, while the button was down, to a pixel of the
\* canvas that a fill would have changed, and the layers are what they were.
FillDragSeen ==
    /\ aux.op = "drag"
    /\ aux.armed
    /\ aux.before.current_tool = "Fill"
    /\ aux.x < CanvasW
    /\ aux.before.last_pixel # Some(<<aux.x, aux.y>>)
    /\ LayerGetPixel(active_layer(aux.before), aux.x, aux.y)
           # aux.before.primary_color
    /\ state.layers = aux.before.layers

-----------------------------------------------------------------------------
\* A fill on a canvas of two layers.  A run draws a black pixel on the first
\* layer, adds a layer, changes the colour, draws on the second layer,
\* selects a layer, changes the colour, takes the fill tool (each of these
\* or not) and presses, and may then undo and redo.  aux.op is the kind of
\* the last message, aux.before the state the press found, aux.after the
\* state it left, aux.x and aux.y its position.

StackInit ==
    /\ state = EditorStateNew(CanvasW, CanvasH)
    /\ locals = None
    /\ aux = [op |-> "new", phase |-> 0, before |-> None, after |-> None,
              x |-> 0, y |-> 0]

\* A message of the set-up was handled.
StackSetUp(st, to) ==
    /\ aux.phase < to
    /\ state' = st
    /\ UNCHANGED locals
    /\ aux' = [aux EXCEPT !.op = "setup", !.phase = to]

StackDrawnStep ==
    \E x \in Xs : StackSetUp(DrawingStarted(state, x, 0), 1)

StackLayerAddedStep == StackSetUp(LayerAdded(state, "Layer 2"), 2)

StackColorStep ==
    \E color \in Palette \ {state.primary_color} :
        StackSetUp(PrimaryColorChanged(state, color), 3)

StackDrawnAgainStep ==
    \E x \in Xs, y \in Ys : StackSetUp(DrawingStarted(state, x, y), 4)

StackSelectedStep ==
    \E index \in 0..(Len(state.layers) - 1) :
        StackSetUp(LayerSelected(state, index), 5)

StackRecoloredStep ==
    \E color \in Palette \ {state.primary_color} :
        StackSetUp(PrimaryColorChanged(state, color), 6)

StackToolStep == StackSetUp(ToolSelected(state, "Fill"), 7)

StackPressedStep ==
    \E x \in Xs, y \in Ys :
        /\ aux.phase < 8
        /\ state' = DrawingStarted(state, x, y)
        /\ UNCHANGED locals
        /\ aux' = [op |-> "press", phase |-> 8, before |-> state,
                   after |-> DrawingStarted(state, x, y), x |-> x, y |-> y]

StackUndoStep ==
    /\ aux.phase = 8
    /\ state' = Undo(state)
    /\ UNCHANGED locals
    /\ aux' = [aux EXCEPT !.op = "undo", !.phase = 9]

StackRedoStep ==
    /\ aux.phase = 9
    /\ state' = Redo(state)
    /\ UNCHANGED locals
    /\ aux' = [aux EXCEPT !.op = "redo", !.phase = 10]

StackNext ==
    \/ StackDrawnStep
    \/ StackLayerAddedStep
    \/ StackColorStep
    \/ StackDrawnAgainStep
    \/ StackSelectedStep
    \/ StackRecoloredStep
    \/ StackToolStep
    \/ StackPressedStep
    \/ StackUndoStep
    \/ StackRedoStep

SpecStack == StackInit /\ [][StackNext]_vars

\* The last message called apply_fill.
FillCalled == aux.op = "press" /\ aux.before.current_tool = "Fill"

\* A state with every layer but the active one cleared and hidden.
OthersBlank(st) ==
    [st EXCEPT !.layers =
        [i \in 1..Len(st.layers) |->
            IF i = st.active_layer_index + 1 THEN st.layers[i]
            ELSE [st.layers[i] EXCEPT
                     !.pixels = Zeros(Len(st.layers[i].pixels)),
                     !.visible = FALSE]]]

\* C30: apply_fill reads its target colour from the active layer and writes
\* to the active layer only: the pixels of every other layer are unchanged,
\* and the filled region is determined by the active layer's own colours,
\* not by the composite of the layers.
FillUsesActiveLayerOnly ==
    FillCalled =>
        LET b == aux.before
            k == b.active_layer_index + 1
            target == LayerGetPixel(b.layers[k], aux.x, aux.y)
            region == IF target = b.primary_color THEN {}
                      ELSE RegionOf(b.layers[k], aux.x, aux.y)
            alone == DrawingStarted(OthersBlank(b), aux.x, aux.y)
        IN  /\ \A i \in 1..Len(state.layers) :
                  i # k => state.layers[i] = b.layers[i]
            /\ \A p \in Xs \X Ys :
                  PixelBytes(state.layers[k], p[1], p[2]) =
                      IF p \in region THEN into_rgba8(b.primary_color)
                      ELSE PixelBytes(b.layers[k], p[1], p[2])
            /\ state.layers[k] = alone.layers[k]
            /\ state.history = alone.history

\* The lower layer was filled from a seed that the upper layer covers with
\* another colour, and more than one pixel changed.
CoveredSeedFilled ==
    /\ FillCalled
    /\ Len(state.layers) = 2
    /\ aux.before.active_layer_index = 0
    /\ state.layers[2].visible
    /\ LayerGetPixel(state.layers[2], aux.x, aux.y) # TRANSPARENT
    /\ get_pixel(aux.before, aux.x, aux.y)
           # LayerGetPixel(aux.before.layers[1], aux.x, aux.y)
    /\ Cardinality({p \in Xs \X Ys :
                       PixelBytes(state.layers[1], p[1], p[2])
                           # PixelBytes(aux.before.layers[1], p[1], p[2])}) > 1

\* The seed's pixel of the active layer stores the bytes that the primary
\* colour encodes to.
SeedStoresPrimary ==
    /\ FillCalled
    /\ PixelBytes(aux.before.layers[aux.before.active_layer_index + 1],
                  aux.x, aux.y) = into_rgba8(aux.before.primary_color)

\* C31: when the active layer's pixel at the seed already stores the RGBA8
\* value that primary_color encodes to, apply_fill is a no-op: no pixel
\* changes and nothing is pushed onto the history.
FillOfStoredColorNoOp ==
    SeedStoresPrimary =>
        /\ state.layers = aux.before.layers
        /\ state.history = aux.before.history

\* The same when the colour read back from the seed's pixel is primary_color
\* itself, which is what apply_fill compares.
FillOfSameColorNoOp ==
    (/\ FillCalled
     /\ LayerGetPixel(aux.before.layers[aux.before.active_layer_index + 1],
                      aux.x, aux.y) = aux.before.primary_color) =>
        /\ state.layers = aux.before.layers
        /\ state.history = aux.before.history

\* A fill on a pixel that stores the primary colour's bytes left the pixels
\* alone and pushed a command.
SameBytesFillRecorded ==
    /\ SeedStoresPrimary
    /\ state.layers = aux.before.layers
    /\ state.history # aux.before.history

\* The press was a fill that changed a pixel.
FillChanged ==
    /\ aux.phase >= 8
    /\ aux.before.current_tool = "Fill"
    /\ aux.after.layers # aux.before.layers

\* C32: a flood fill that changes at least one pixel pushes exactly one
\* MultiPixelChange, which holds each filled pixel exactly once with the
\* target colour as its old colour; a single Undo restores the whole filled
\* region and a single Redo fills it again.
FillIsOneCommand ==
    FillChanged =>
        LET b == aux.before
            k == b.active_layer_index + 1
            target == LayerGetPixel(b.layers[k], aux.x, aux.y)
            region == RegionOf(b.layers[k], aux.x, aux.y)
            command == aux.after.history.commands[
                           Len(aux.after.history.commands)]
        IN  /\ aux.after.history.commands =
                   Append(b.history.commands, command)
            /\ aux.after.history.current_index = b.history.current_index + 1
            /\ command.type = "MultiPixelChange"
            /\ command.layer_index = b.active_layer_index
            /\ Len(command.changes) = Cardinality(region)
            /\ \A p \in region :
                  \E i \in 1..Len(command.changes) :
                      command.changes[i] =
                          <<p[1], p[2], target, b.primary_color>>
            /\ aux.op = "press" => state = aux.after
            /\ aux.op = "undo" =>
                  /\ state.layers = b.layers
                  /\ state.history.commands = aux.after.history.commands
                  /\ state.history.current_index = b.history.current_index
            /\ aux.op = "redo" =>
                  /\ state.layers = aux.after.layers
                  /\ state.history = aux.after.history

\* A fill of more than one pixel was undone and redone.
FillRedone ==
    /\ FillChanged
    /\ aux.op = "redo"
    /\ Cardinality(RegionOf(aux.before.layers[
                       aux.before.active_layer_index + 1], aux.x, aux.y)) > 1

-----------------------------------------------------------------------------
\* The eyedropper on a canvas of two layers.  A run draws a black pixel on
\* the first layer, adds a layer, changes the colour, draws on the second
\* layer, dims a layer, hides a layer, selects a layer, takes the eyedropper
\* (each of these or not) and presses.  aux.op is the kind of the last
\* message, aux.before the state the press found, aux.x and aux.y its
\* position.

PickInit ==
    /\ state = EditorStateNew(CanvasW, CanvasH)
    /\ locals = None
    /\ aux = [op |-> "new", phase |-> 0, before |-> None, x |-> 0, y |-> 0]

PickSetUp(st, to) ==
    /\ aux.phase < to
    /\ state' = st
    /\ UNCHANGED locals
    /\ aux' = [aux EXCEPT !.op = "setup", !.phase = to]

PickDrawnStep == PickSetUp(DrawingStarted(state, 0, 0), 1)

PickLayerAddedStep == PickSetUp(LayerAdded(state, "Layer 2"), 2)

PickColorStep ==
    \E color \in Palette \ {state.primary_color} :
        PickSetUp(PrimaryColorChanged(state, color), 3)

PickDrawnAgainStep ==
    \E x \in Xs : PickSetUp(DrawingStarted(state, x, 0), 4)

PickOpacityStep ==
    \E index \in 0..(Len(state.layers) - 1) :
        \E opacity \in Opacities \ {state.layers[index + 1].opacity} :
            PickSetUp(LayerOpacityChanged(state, index, opacity), 5)

PickVisibilityStep ==
    \E index \in 0..(Len(state.layers) - 1) :
        PickSetUp(LayerVisibilityToggled(state, index), 6)

PickSelectedStep ==
    \E index \in 0..(Len(state.layers) - 1) :
        PickSetUp(LayerSelected(state, index), 7)

PickToolStep == PickSetUp(ToolSelected(state, "Eyedropper"), 8)

PickPressedStep ==
    \E x \in Xs, y \in Ys :
        /\ aux.phase < 9
        /\ state' = DrawingStarted(state, x, y)
        /\ UNCHANGED locals
        /\ aux' = [op |-> "press", phase |-> 9, before |-> state,
                   x |-> x, y |-> y]

PickNext ==
    \/ PickDrawnStep
    \/ PickLayerAddedStep
    \/ PickColorStep
    \/ PickDrawnAgainStep
    \/ PickOpacityStep
    \/ PickVisibilityStep
    \/ PickSelectedStep
    \/ PickToolStep
    \/ PickPressedStep

SpecPick == PickInit /\ [][PickNext]_vars

\* The last message called apply_eyedropper.
EyedropperCalled == aux.op = "press" /\ aux.before.current_tool = "Eyedropper"

\* C33: apply_eyedropper at (x, y) on the canvas sets primary_color to the
\* composited colour of the visible layers at (x, y), not to the active
\* layer's own pixel, when its alpha is above 0.01, and registers it in
\* used_colors; otherwise primary_color is unchanged; in both cases no layer
\* pixel and no history entry changes.
EyedropperPicksComposite ==
    EyedropperCalled =>
        LET b == aux.before
            color == get_pixel(b, aux.x, aux.y)
        IN  /\ state.layers = b.layers
            /\ state.history = b.history
            /\ IF RLt(Rat(1, 100), color.a)
               THEN /\ state.primary_color = color
                    /\ state.used_colors = add_used_color(b, color).used_colors
                    /\ \E i \in 1..Len(state.used_colors) :
                          LET c == state.used_colors[i]
                          IN  /\ Near(c.r, color.r) /\ Near(c.g, color.g)
                              /\ Near(c.b, color.b) /\ Near(c.a, color.a)
               ELSE /\ state.primary_color = b.primary_color
                    /\ state.used_colors = b.used_colors

\* The eyedropper picked a composite colour that is not the active layer's
\* pixel and was not in used_colors.
BlendPicked ==
    /\ EyedropperCalled
    /\ state.primary_color = get_pixel(aux.before, aux.x, aux.y)
    /\ state.primary_color # aux.before.primary_color
    /\ state.primary_color
           # LayerGetPixel(active_layer(aux.before), aux.x, aux.y)
    /\ Len(state.used_colors) = Len(aux.before.used_colors) + 1

\* The eyedropper was pressed on a pixel whose composite is clear while the
\* active layer's pixel is not.
HiddenNotPicked ==
    /\ EyedropperCalled
    /\ ~RLt(Rat(1, 100), get_pixel(aux.before, aux.x, aux.y).a)
    /\ LayerGetPixel(active_layer(aux.before), aux.x, aux.y).a = RInt(1)
    /\ state.primary_color = aux.before.primary_color

-----------------------------------------------------------------------------
\* The brush on a wider canvas.  A run draws one black pixel, changes the
\* colour, sets the brush size (each of these or not) and presses the pencil
\* once, on the canvas or one pixel off it.  aux.op is the kind of the last
\* message, aux.before the state the press found, aux.x and aux.y its
\* position.

BrushW == 5
BrushH == 4

\* Brush sizes on the wider canvas, through the largest the handler allows.
SquareSizes == {1, 2, 3, 4, 5, 20}

BrushInit ==
    /\ state = EditorStateNew(BrushW, BrushH)
    /\ locals = None
    /\ aux = [op |-> "new", phase |-> 0, before |-> None, x |-> 0, y |-> 0]

BrushSetUp(st, to) ==
    /\ aux.phase < to
    /\ state' = st
    /\ UNCHANGED locals
    /\ aux' = [aux EXCEPT !.op = "setup", !.phase = to]

BrushInkedStep ==
    \E x \in {0, 2} : BrushSetUp(DrawingStarted(state, x, 1), 1)

BrushColorStep == BrushSetUp(PrimaryColorChanged(state, Red), 2)

BrushSizedStep ==
    \E size \in SquareSizes \ {state.brush_size} :
        BrushSetUp(BrushSizeChanged(state, size), 3)

BrushPressedStep ==
    \E x \in 0..BrushW, y \in 0..BrushH :
        /\ aux.phase < 4
        /\ state' = DrawingStarted(state, x, y)
        /\ UNCHANGED locals
        /\ aux' = [op |-> "press", phase |-> 4, before |-> state,
                   x |-> x, y |-> y]

BrushNext ==
    \/ BrushInkedStep
    \/ BrushColorStep
    \/ BrushSizedStep
    \/ BrushPressedStep

SpecBrush == BrushInit /\ [][BrushNext]_vars

\* The positions that the commands pushed by the press list, as a set, and
\* how many they list.
WrittenCells ==
    LET old == Len(aux.before.history.commands)
        new == {i \in 1..Len(state.history.commands) : i > old}
        cells(c) == IF c.type = "PixelChange" THEN {<<c.x, c.y>>}
                    ELSE {<<c.changes[k][1], c.changes[k][2]>> :
                             k \in 1..Len(c.changes)}
    IN  UNION {cells(state.history.commands[i]) : i \in new}

\* The square of the claim: the pixels of the canvas within floor(s / 2) of
\* (x, y) in both directions.
ClippedSquare(st, x, y) ==
    {p \in (0..(st.canvas_width - 1)) \X (0..(st.canvas_height - 1)) :
        /\ Abs(p[1] - x) <= st.brush_size \div 2
        /\ Abs(p[2] - y) <= st.brush_size \div 2}

\* The press wrote the clipped square and nothing else.
SquareWritten ==
    LET b == aux.before
        square == ClippedSquare(b, aux.x, aux.y)
    IN  /\ WrittenCells = square
        /\ \A p \in (0..(b.canvas_width - 1)) \X (0..(b.canvas_height - 1)) :
              PixelBytes(state.layers[1], p[1], p[2]) =
                  IF p \in square THEN into_rgba8(b.primary_color)
                  ELSE PixelBytes(b.layers[1], p[1], p[2])
        /\ (b.brush_size = 1 /\ <<aux.x, aux.y>> \in square) =>
              WrittenCells = {<<aux.x, aux.y>>}
        /\ b.brush_size % 2 = 0 =>
              state.layers =
                  DrawingStarted(BrushSizeChanged(b, b.brush_size + 1),
                                 aux.x, aux.y).layers

-----------------------------------------------------------------------------
\* Layers added, deleted and moved around an edit.  A run draws a black
\* pixel on the first layer, adds up to two layers, selects a layer, takes
\* red (each of these or not), draws at (0, 0), then sends one or two of
\* LayerAdded, LayerDeleted and LayerMoved, then Undo, then Redo.
\* aux.ids lists, for every layer of state.layers in order, the number it
\* was given when it was made (aux.made numbers were given); aux.edited is
\* the number of the layer that was drawn on, aux.old and aux.new the bytes
\* of its pixel (0, 0) before and after; aux.was is the number of the layer
\* that was active before the last message, aux.before the state it found,
\* aux.index and aux.to its indices.

OrderInit ==
    /\ state = EditorStateNew(CanvasW, CanvasH)
    /\ locals = None
    /\ aux = [op |-> "new", phase |-> 0, before |-> None, ids |-> <<1>>,
              made |-> 1, edited |-> 0, old |-> <<>>, new |-> <<>>,
              was |-> 0, index |-> 0, to |-> 0]

OrderSetUp(st, to) ==
    /\ aux.phase < to
    /\ state' = st
    /\ UNCHANGED locals
    /\ aux' = [aux EXCEPT !.op = "setup", !.phase = to]

OrderInkedStep == OrderSetUp(DrawingStarted(state, 0, 0), 1)

\* LayerAdded with the name the "+ Add Layer" button gives.
OrderAdded(phase) ==
    /\ state' = LayerAdded(state, LayerNames[Len(state.layers) + 1])
    /\ UNCHANGED locals
    /\ aux' = [aux EXCEPT !.op = "add", !.phase = phase, !.before = state,
                          !.ids = Append(aux.ids, aux.made + 1),
                          !.made = aux.made + 1,
                          !.was = aux.ids[state.active_layer_index + 1]]

OrderAddedStep == aux.phase < 2 /\ OrderAdded(2)

OrderAddedAgainStep == aux.phase = 2 /\ OrderAdded(3)

OrderSelectedStep ==
    \E index \in 0..(Len(state.layers) - 1) :
        OrderSetUp(LayerSelected(state, index), 4)

OrderColorStep == OrderSetUp(PrimaryColorChanged(state, Red), 5)

OrderEditedStep ==
    /\ aux.phase < 6
    /\ state' = DrawingStarted(state, 0, 0)
    /\ UNCHANGED locals
    /\ aux' = [aux EXCEPT !.op = "edit", !.phase = 6,
                          !.edited = aux.ids[state.active_layer_index + 1],
                          !.old = PixelBytes(active_layer(state), 0, 0),
                          !.new = into_rgba8(state.primary_color)]

OrderAddedLaterStep == aux.phase \in {6, 7} /\ OrderAdded(aux.phase + 1)

OrderDeletedStep ==
    \E index \in 0..(Len(state.layers) - 1) :
        /\ aux.phase \in {6, 7}
        /\ state' = LayerDeleted(state, index)
        /\ UNCHANGED locals
        /\ aux' = [aux EXCEPT
                      !.op = "delete", !.phase = aux.phase + 1,
                      !.before = state, !.index = index,
                      !.ids = IF Len(state.layers) > 1
                              THEN RemoveAt(aux.ids, index) ELSE aux.ids,
                      !.was = aux.ids[state.active_layer_index + 1]]

OrderMovedStep ==
    \E from \in 0..(Len(state.layers) - 1), to \in 0..(Len(state.layers) - 1) :
        /\ aux.phase \in {6, 7}
        /\ state' = LayerMoved(state, from, to)
        /\ UNCHANGED locals
        /\ aux' = [aux EXCEPT
                      !.op = "move", !.phase = aux.phase + 1,
                      !.before = state, !.index = from, !.to = to,
                      !.ids = InsertAt(RemoveAt(aux.ids, from), to,
                                       aux.ids[from + 1]),
                      !.was = aux.ids[state.active_layer_index + 1]]

OrderUndoStep ==
    /\ aux.phase \in {7, 8}
    /\ state' = Undo(state)
    /\ UNCHANGED locals
    /\ aux' = [aux EXCEPT !.op = "undo", !.phase = 9, !.before = state]

OrderRedoStep ==
    /\ aux.phase = 9
    /\ state' = Redo(state)
    /\ UNCHANGED locals
    /\ aux' = [aux EXCEPT !.op = "redo", !.phase = 10, !.before = state]

OrderNext ==
    \/ OrderInkedStep
    \/ OrderAddedStep
    \/ OrderAddedAgainStep
    \/ OrderSelectedStep
    \/ OrderColorStep
    \/ OrderEditedStep
    \/ OrderAddedLaterStep
    \/ OrderDeletedStep
    \/ OrderMovedStep
    \/ OrderUndoStep
    \/ OrderRedoStep

SpecOrder == OrderInit /\ [][OrderNext]_vars

\* aux.ids follows the layers: one number per layer, no number twice.
IdsFollowLayers ==
    /\ Len(aux.ids) = Len(state.layers)
    /\ \A i, j \in 1..Len(aux.ids) : aux.ids[i] = aux.ids[j] => i = j

\* C36: Undo and Redo of a recorded command modify the layer that the edit
\* modified, the same layer by identity, and only that layer, whatever
\* LayerAdded, LayerDeleted and LayerMoved came between the edit and the
\* Undo or Redo.
UndoRedoHitEditedLayer ==
    aux.op \in {"undo", "redo"} =>
        \A i \in 1..Len(state.layers) :
            IF aux.ids[i] = aux.edited
            THEN PixelBytes(state.layers[i], 0, 0) =
                     IF aux.op = "undo" THEN aux.old ELSE aux.new
            ELSE state.layers[i] = aux.before.layers[i]

\* Undo and Redo write to the layer that is now at the index the command
\* recorded.
UndoRedoHitRecordedIndex ==
    aux.op \in {"undo", "redo"} =>
        LET h == IF aux.op = "undo" THEN state.history ELSE aux.before.history
            command == h.commands[h.current_index + 1]
        IN  \A i \in 1..Len(state.layers) :
                IF i = command.layer_index + 1
                THEN PixelBytes(state.layers[i], 0, 0) =
                         IF aux.op = "undo" THEN aux.old ELSE aux.new
                ELSE state.layers[i] = aux.before.layers[i]

\* The last message was a LayerMoved with valid indices, or a LayerDeleted
\* with a valid index that is not the active one.
ReorderedOrDeletedOther ==
    \/ aux.op = "move"
    \/ aux.op = "delete" /\ aux.index # aux.before.active_layer_index

\* C37: reordering and deletion keep the active layer: after LayerMoved
\* with valid from and to, or LayerDeleted with a valid index other than
\* active_layer_index, the active layer is the same layer, of the same name
\* and pixels, as before.
ActiveLayerKept ==
    ReorderedOrDeletedOther =>
        /\ aux.ids[state.active_layer_index + 1] = aux.was
        /\ active_layer(state) = active_layer(aux.before)

\* The same when the moved layer leaves from or lands on the active index,
\* and when the deleted layer is above the active one.
ActiveLayerKeptNearby ==
    (\/ aux.op = "move" /\ aux.before.active_layer_index \in {aux.index, aux.to}
     \/ aux.op = "delete" /\ aux.index > aux.before.active_layer_index) =>
        /\ aux.ids[state.active_layer_index + 1] = aux.was
        /\ active_layer(state) = active_layer(aux.before)

-----------------------------------------------------------------------------
\* Undo and Redo back and forth over commands of every kind.  A run takes a
\* colour, presses the pencil, selects a rectangle from (0, 0), copies it,
\* cuts it, pastes, presses the eraser and presses the fill tool (each of
\* these or not), and then sends up to MaxWalk Undo and Redo messages in any
\* order.  aux.op is the kind of the last message and aux.prev the kind of
\* the one before; aux.before is the state the last message found and
\* aux.start the state the one before found; aux.cut tells whether
\* CutSelection cleared a pixel.

MaxWalk == 4

RoundInit ==
    /\ state = EditorStateNew(CanvasW, CanvasH)
    /\ locals = None
    /\ aux = [op |-> "new", prev |-> "new", phase |-> 0, walk |-> 0,
              before |-> None, start |-> None, cut |-> FALSE]

RoundSetUp(st, to) ==
    /\ aux.phase < to
    /\ state' = st
    /\ UNCHANGED locals
    /\ aux' = [aux EXCEPT !.op = "setup", !.prev = aux.op, !.phase = to]

RoundColorStep ==
    \E color \in Palette \ {state.primary_color} :
        RoundSetUp(PrimaryColorChanged(state, color), 1)

RoundPencilStep ==
    \E x \in Xs : RoundSetUp(DrawingStarted(state, x, 0), 2)

RoundStartedStep == RoundSetUp(SelectionStarted(state, RInt(0), RInt(0)), 3)

RoundUpdatedStep ==
    \E x \in 1..CanvasW :
        /\ aux.phase = 3
        /\ RoundSetUp(SelectionUpdated(state, RInt(x), RInt(1)), 4)

RoundEndedStep == aux.phase = 4 /\ RoundSetUp(SelectionEnded(state), 5)

RoundCopiedStep == aux.phase = 5 /\ RoundSetUp(CopySelection(state), 6)

RoundCutStep ==
    /\ aux.phase \in {5, 6}
    /\ state' = CutSelection(state)
    /\ UNCHANGED locals
    /\ aux' = [aux EXCEPT !.op = "setup", !.prev = aux.op, !.phase = 7,
                          !.cut = state'.layers # state.layers]

RoundPastedStep ==
    \E x \in Xs :
        /\ state.clipboard # None
        /\ RoundSetUp(PasteSelection(state, x, 1), 8)

RoundEraserStep == RoundSetUp(ToolSelected(state, "Eraser"), 9)

RoundErasedStep ==
    \E x \in Xs :
        /\ aux.phase = 9
        /\ RoundSetUp(DrawingStarted(state, x, 0), 10)

RoundFillStep == RoundSetUp(ToolSelected(state, "Fill"), 11)

RoundFilledStep ==
    \E y \in Ys :
        /\ aux.phase = 11
        /\ RoundSetUp(DrawingStarted(state, 0, y), 12)

\* An Undo or Redo of the walk.
RoundWalk(op, st) ==
    /\ aux.walk < MaxWalk
    /\ state' = st
    /\ UNCHANGED locals
    /\ aux' = [aux EXCEPT !.op = op, !.prev = aux.op, !.phase = 13,
                          !.walk = aux.walk + 1,
                          !.before = state, !.start = aux.before]

RoundUndoStep == RoundWalk("undo", Undo(state))

RoundRedoStep == RoundWalk("redo", Redo(state))

RoundNext ==
    \/ RoundColorStep
    \/ RoundPencilStep
    \/ RoundStartedStep
    \/ RoundUpdatedStep
    \/ RoundEndedStep
    \/ RoundCopiedStep
    \/ RoundCutStep
    \/ RoundPastedStep
    \/ RoundEraserStep
    \/ RoundErasedStep
    \/ RoundFillStep
    \/ RoundFilledStep
    \/ RoundUndoStep
    \/ RoundRedoStep

SpecRound == RoundInit /\ [][RoundNext]_vars

\* The last two messages were an Undo that undid a command and a Redo, or
\* a Redo that redid a command and an Undo.
WentAndCameBack ==
    \/ /\ aux.prev = "undo" /\ aux.op = "redo"
       /\ can_undo(aux.start.history)
    \/ /\ aux.prev = "redo" /\ aux.op = "undo"
       /\ can_redo(aux.start.history)

\* The layers and the history are those that the first of the two messages
\* found.
BackWhereStarted ==
    /\ Pix(state) = Pix(aux.start)
    /\ state.history = aux.start.history

\* C38: for any command on the history (pencil, eraser, fill or paste), with
\* no layer or canvas operation in between, Undo immediately followed by
\* Redo leaves every layer's pixels and the history cursor as they were
\* before the Undo, and Redo immediately followed by Undo leaves them as
\* they were before the Redo.
UndoRedoAreInverse == WentAndCameBack => BackWhereStarted

\* The same in the runs in which CutSelection cleared no pixel.
UndoRedoAreInverseUnlessCut ==
    (WentAndCameBack /\ ~aux.cut) => BackWhereStarted

\* A fill over pasted pixels was undone and redone, and the pixels changed
\* on the way.
FillWentAndCameBack ==
    /\ WentAndCameBack
    /\ ~aux.cut
    /\ aux.phase = 13
    /\ aux.op = "redo"
    /\ Len(state.history.commands) = 4
    /\ state.history.current_index = 4
    /\ Pix(aux.before) # Pix(state)

-----------------------------------------------------------------------------
\* Releasing the left button over the canvas.  CanvasProgram::update turns
\* the release into SelectionEnded when the selection tool is current, there
\* is a selection and is_selecting holds, and into DrawingEnded otherwise.

\* The message of a left-button release over the canvas.
ReleaseSends(st) ==
    IF /\ st.current_tool = "Selection"
       /\ st.selection # None
       /\ st.is_selecting
    THEN "SelectionEnded"
    ELSE "DrawingEnded"

\* The release, handled.
ButtonReleased(st) ==
    IF ReleaseSends(st) = "SelectionEnded" THEN SelectionEnded(st)
    ELSE DrawingEnded(st)

\* A run takes a tool, presses on the canvas, takes a tool, selects all
\* (Ctrl+A sends SelectionStarted), drags (each of these or not), releases
\* the button over the canvas, takes a tool and moves over another pixel
\* (PixelDrawn).  aux.op is the kind of the last message, aux.sent the
\* message the release was turned into, aux.before the state the last
\* message found.

ReleaseInit ==
    /\ state = EditorStateNew(CanvasW, CanvasH)
    /\ locals = None
    /\ aux = [op |-> "new", phase |-> 0, sent |-> "", before |-> None]

ReleaseSetUp(st, to) ==
    /\ aux.phase < to
    /\ state' = st
    /\ UNCHANGED locals
    /\ aux' = [aux EXCEPT !.op = "setup", !.phase = to, !.before = state]

ReleaseToolStep ==
    \E tool \in ToolNames \ {state.current_tool} :
        ReleaseSetUp(ToolSelected(state, tool), 1)

ReleasePressedStep ==
    \E x \in Xs : ReleaseSetUp(DrawingStarted(state, x, 0), 2)

ReleaseRetoolStep ==
    \E tool \in ToolNames \ {state.current_tool} :
        ReleaseSetUp(ToolSelected(state, tool), 3)

ReleaseSelectAllStep ==
    ReleaseSetUp(SelectionStarted(state, RInt(0), RInt(0)), 4)

ReleaseDraggedStep ==
    \E x \in Xs :
        /\ ~state.is_drawing
        /\ state.current_tool = "Selection"
        /\ state.selection # None
        /\ state.is_selecting
        /\ ReleaseSetUp(SelectionUpdated(state, RInt(x), RInt(1)), 5)

ReleaseClearedStep == ReleaseSetUp(SelectionCleared(state), 5)

ReleasedStep ==
    /\ aux.phase < 6
    /\ state' = ButtonReleased(state)
    /\ UNCHANGED locals
    /\ aux' = [aux EXCEPT !.op = "release", !.phase = 6,
                          !.sent = ReleaseSends(state), !.before = state]

ReleaseLastToolStep ==
    \E tool \in ToolNames \ {state.current_tool} :
        /\ aux.phase = 6
        /\ ReleaseSetUp(ToolSelected(state, tool), 7)

ReleaseMovedStep ==
    \E x \in Xs :
        /\ aux.phase \in {6, 7}
        /\ state' = PixelDrawn(state, x, 1)
        /\ UNCHANGED locals
        /\ aux' = [aux EXCEPT !.op = "move", !.phase = 8, !.before = state]

ReleaseNext ==
    \/ ReleaseToolStep
    \/ ReleasePressedStep
    \/ ReleaseRetoolStep
    \/ ReleaseSelectAllStep
    \/ ReleaseDraggedStep
    \/ ReleaseClearedStep
    \/ ReleasedStep
    \/ ReleaseLastToolStep
    \/ ReleaseMovedStep

SpecRelease == ReleaseInit /\ [][ReleaseNext]_vars

\* C39: every left-button release over the canvas ends drawing mode:
\* whichever message the canvas sends for it, SelectionEnded or
\* DrawingEnded, and whatever tool, selection and is_selecting the earlier
\* messages left, is_drawing is false once the release is handled, so a
\* later PixelDrawn without a new DrawingStarted changes no pixel.
ReleaseEndsDrawing ==
    aux.phase >= 6 =>
        /\ ~state.is_drawing
        /\ aux.op = "move" => state.layers = aux.before.layers

\* The same for the releases that the canvas turns into DrawingEnded.
DrawingEndedEndsDrawing ==
    (aux.phase >= 6 /\ aux.sent = "DrawingEnded") =>
        /\ ~state.is_drawing
        /\ aux.op = "move" => state = aux.before

\* A release sent as SelectionEnded leaves is_drawing as it found it.
SelectionEndedKeepsDrawing ==
    (aux.op = "release" /\ aux.sent = "SelectionEnded") =>
        state.is_drawing = aux.before.is_drawing

\* After a release sent as SelectionEnded, a PixelDrawn drew a pixel.
DrawnAfterRelease ==
    /\ aux.op = "move"
    /\ aux.sent = "SelectionEnded"
    /\ state.layers # aux.before.layers

=============================================================================
